---- MODULE Spec2Model ----
(***************************************************************************)
(* Model of gh-utils: the rate-limit aware API client (client.py), the    *)
(* JSON file cache (cache.py), the PR resolver (pr.py) and the compiler   *)
(* file classifier (filter.py).                                           *)
(*                                                                         *)
(* Python strings are sequences of one-character strings, so that         *)
(* formatting, replacing, prefix tests and string order are computed.     *)
(* An optional value (Python None or a value) is <<>> or <<v>>.            *)
(* A Python dict is a function whose DOMAIN is its key set.               *)
(***************************************************************************)
EXTENDS Integers, Sequences, FiniteSets, TLC

VARIABLES disk, last, nops, api, pag

vars == <<disk, last, nops, api, pag>>

(***************************************************************************)
(* Bounds of the model.                                                    *)
(***************************************************************************)
MaxOps == 2
MaxMatches == 2
MaxLimit == 1
MaxNumbers == 2
MaxRetries == 3
MaxLatency == 1
MaxServerPages == 3
MaxPagesArg == 3
MaxCacheOps == 3
MaxBatch == 1
MaxFilterOps == 1
MaxFilterLen == 3
MaxBatchCalls == 1
MaxBatchLen == 2
MaxSearchCalls == 1
MaxTagCalls == 1
MaxClassifyCalls == 1
MaxFiles == 2
MaxMissOps == 2
MaxRepoOps == 2
MaxRangeOps == 2

(***************************************************************************)
(* Strings.                                                                *)
(***************************************************************************)
None == <<>>
Some(v) == <<v>>

Min(a, b) == IF a < b THEN a ELSE b
Max(a, b) == IF a > b THEN a ELSE b

\* The characters of the model in code point order.
Alphabet ==
  <<"-", "0", "1", "2", "3", "4", "5", "6", "7", "8", "9", ":", "T", "Z">>

Ord(c) == CHOOSE i \in 1..Len(Alphabet) : Alphabet[i] = c

\* Python's str < str: the first differing character decides, a proper
\* prefix is smaller.
RECURSIVE StrLess(_, _)
StrLess(a, b) ==
  IF b = <<>> THEN FALSE
  ELSE IF a = <<>> THEN TRUE
  ELSE IF Head(a) = Head(b) THEN StrLess(Tail(a), Tail(b))
  ELSE Ord(Head(a)) < Ord(Head(b))

\* str.startswith
StartsWith(s, p) == Len(p) <= Len(s) /\ SubSeq(s, 1, Len(p)) = p

DigitChars == <<"0", "1", "2", "3", "4", "5", "6", "7", "8", "9">>

\* str(n) of a non-negative int
RECURSIVE Str(_)
Str(n) == IF n < 10 THEN <<DigitChars[n + 1]>>
          ELSE Str(n \div 10) \o <<DigitChars[(n % 10) + 1]>>

\* dict.get(key) as an optional value
Get(d, key) == IF key \in DOMAIN d THEN Some(d[key]) ELSE None

\* d[key] = v
Put(d, key, v) == [k \in DOMAIN d \cup {key} |-> IF k = key THEN v ELSE d[k]]

EmptyDict == [k \in {} |-> 0]

RECURSIVE Pow2(_)
Pow2(n) == IF n = 0 THEN 1 ELSE 2 * Pow2(n - 1)

SeqsUpTo(S, n) == UNION {[1..k -> S] : k \in 0..n}

(***************************************************************************)
(* The domains the inputs are drawn from.                                  *)
(***************************************************************************)
Repos == {<<"a", "/", "b">>}

Tags == {<<"v", "1">>, <<"v", "2">>}

\* The tag pairs fetch_prs_between_tags is called with.
TagPairs == {<<<<"v", "1">>, <<"v", "2">>>>, <<<<"v", "2">>, <<"v", "1">>>>}

\* updated_at values: "10" sorts before "9" as a string, after it as a number.
Timestamps == {<<"9">>, <<"1", "0">>}

Numbers == 0..MaxNumbers

\* A search item. The GitHub search API returns "number", "title" and
\* "updated_at"; an item without "number" stands for a malformed item.
PR(n, u) == [number |-> n, title |-> <<"t">>, updated_at |-> u]

NoNumberPR == [title |-> <<"t">>, updated_at |-> <<"9">>]

\* What a search may return: every number once, PR 1 also in a second
\* version (updated between two pages), and the malformed item.
SearchItems ==
  {PR(n, <<"9">>) : n \in Numbers} \cup {PR(1, <<"1", "0">>)} \cup {NoNumberPR}

(***************************************************************************)
(* cache.py: PRCache.  disk maps a directory to its pr_<n>.json files      *)
(* (file name -> JSON document) and its index.json (None when not written).*)
(***************************************************************************)
\* repo.replace("/", "_")
get_repo_dir(repo) ==
  [i \in 1..Len(repo) |-> IF repo[i] = "/" THEN "_" ELSE repo[i]]

Dirs == {get_repo_dir(r) : r \in Repos}

\* f"pr_{pr_number}.json"
pr_file(pr_number) ==
  <<"p", "r", "_">> \o Str(pr_number) \o <<".", "j", "s", "o", "n">>

EmptyIndex == [prs |-> EmptyDict, tag_ranges |-> EmptyDict]

\* int(text) of a decimal numeral
RECURSIVE ParseInt(_)
ParseInt(text) ==
  IF text = <<>> THEN 0
  ELSE 10 * ParseInt(SubSeq(text, 1, Len(text) - 1))
         + (CHOOSE v \in 0..9 : DigitChars[v + 1] = text[Len(text)])

\* The fields of a record that hold an int; "files" holds a list of file
\* entries, every other field a string.
IntFields == {"number", "id"}

\* json.dumps of a file entry, a field value, a record: the JSON document,
\* in which a number is its decimal numeral.
json_dumps_file(f) ==
  [json |-> "object",
   members |-> [k \in DOMAIN f |-> [json |-> "string", text |-> f[k]]]]

json_dumps_value(k, v) ==
  IF k \in IntFields THEN [json |-> "number", text |-> Str(v)]
  ELSE IF k = "files"
  THEN [json |-> "array", items |-> [i \in 1..Len(v) |-> json_dumps_file(v[i])]]
  ELSE [json |-> "string", text |-> v]

json_dumps(data) ==
  [json |-> "object",
   members |-> [k \in DOMAIN data |-> json_dumps_value(k, data[k])]]

\* json.loads of such a document.
json_loads_file(x) == [k \in DOMAIN x.members |-> x.members[k].text]

json_loads_value(x) ==
  IF x.json = "number" THEN ParseInt(x.text)
  ELSE IF x.json = "array"
  THEN [i \in 1..Len(x.items) |-> json_loads_file(x.items[i])]
  ELSE x.text

\* json_loads with a bug: the number of a record is read as one more.
json_loads_off(doc) ==
  [k \in DOMAIN doc.members |->
     IF doc.members[k].json = "number" THEN ParseInt(doc.members[k].text) + 1
     ELSE json_loads_value(doc.members[k])]

EmptyDir == [prs |-> EmptyDict, index |-> None]

json_loads(doc) == [k \in DOMAIN doc.members |-> json_loads_value(doc.members[k])]

\* json.dumps and json.loads of an index: the PR numbers of the tag ranges
\* are decimal numerals in the document.
json_dumps_index(index) ==
  [prs |-> index.prs,
   tag_ranges |-> [k \in DOMAIN index.tag_ranges |->
                     [i \in 1..Len(index.tag_ranges[k]) |->
                        Str(index.tag_ranges[k][i])]]]

json_loads_index(doc) ==
  [prs |-> doc.prs,
   tag_ranges |-> [k \in DOMAIN doc.tag_ranges |->
                     [i \in 1..Len(doc.tag_ranges[k]) |->
                        ParseInt(doc.tag_ranges[k][i])]]]

\* save_pr with a bug: nothing is written.
save_pr_nowhere(d, repo, pr_number, data) == d

get_pr(d, repo, pr_number) ==
  LET cache_file == Get(d[get_repo_dir(repo)].prs, pr_file(pr_number))
  IN  IF cache_file # None THEN Some(json_loads(cache_file[1])) ELSE None

save_pr(d, repo, pr_number, data) ==
  [d EXCEPT ![get_repo_dir(repo)].prs =
     Put(@, pr_file(pr_number), json_dumps(data))]

get_index(d, repo) ==
  IF d[get_repo_dir(repo)].index # None
  THEN json_loads_index(d[get_repo_dir(repo)].index[1])
  ELSE EmptyIndex

save_index(d, repo, index) ==
  [d EXCEPT ![get_repo_dir(repo)].index = Some(json_dumps_index(index))]

\* TruthyInt with a bug: 0 counts as a PR number.
TruthyIntOrZero(o) == o # None

\* Python truth of an optional int / an optional str / an optional dict
TruthyInt(o) == o # None /\ o[1] # 0
TruthyStr(o) == o # None /\ o[1] # <<>>
TruthyDict(o) == o # None /\ DOMAIN o[1] # {}

\* pr.get(k1) or pr.get(k2, "")
GetOr(pr, k1, k2) ==
  IF TruthyStr(Get(pr, k1)) THEN pr[k1]
  ELSE IF k2 \in DOMAIN pr THEN pr[k2] ELSE <<>>

\* Summary with a bug: the updated_at of the record is left out.
SummaryWithoutDate(pr) ==
  [title |-> IF "title" \in DOMAIN pr THEN pr["title"] ELSE <<>>,
   merged_at |-> <<>>, updated_at |-> <<>>]

Summary(pr) ==
  [title |-> IF "title" \in DOMAIN pr THEN pr["title"] ELSE <<>>,
   merged_at |-> GetOr(pr, "merged_at", "mergedAt"),
   updated_at |-> GetOr(pr, "updated_at", "updatedAt")]

\* The loop of save_prs_batch: the disk and the index dict after the records
\* prs[i..] are handled.
RECURSIVE SaveBatchLoop(_, _, _, _, _, _)
SaveBatchLoop(d, repo, prs, key, index, i) ==
  IF i > Len(prs) THEN [disk |-> d, index |-> index]
  ELSE LET pr == prs[i]
           pr_number == Get(pr, key)
       IN  IF TruthyInt(pr_number)
           THEN SaveBatchLoop(
                  save_pr(d, repo, pr_number[1], pr), repo, prs, key,
                  [index EXCEPT !.prs = Put(@, Str(pr_number[1]), Summary(pr))],
                  i + 1)
           ELSE SaveBatchLoop(d, repo, prs, key, index, i + 1)

save_prs_batch(d, repo, prs, key) ==
  LET r == SaveBatchLoop(d, repo, prs, key, get_index(d, repo), 1)
  IN  save_index(r.disk, repo, r.index)

\* "index.json"
IndexFile == <<"i", "n", "d", "e", "x", ".", "j", "s", "o", "n">>

\* The files save_prs_batch writes, in the order it writes them: save_pr
\* for each record with a truthy key, then save_index.
RECURSIVE BatchRecordWrites(_, _)
BatchRecordWrites(prs, key) ==
  IF prs = <<>> THEN <<>>
  ELSE (IF TruthyInt(Get(Head(prs), key))
        THEN <<pr_file(Head(prs)[key])>> ELSE <<>>)
         \o BatchRecordWrites(Tail(prs), key)

BatchWrites(prs, key) == BatchRecordWrites(prs, key) \o <<IndexFile>>

\* range_key with a bug: the end tag is left out of the key.
range_key_of_start(start_tag, end_tag) == start_tag

\* f"{start_tag}..{end_tag}"
range_key(start_tag, end_tag) == start_tag \o <<".", ".">> \o end_tag

mark_tag_range_fetched(d, repo, start_tag, end_tag, pr_numbers) ==
  LET index == get_index(d, repo)
  IN  save_index(d, repo,
        [index EXCEPT !.tag_ranges =
           Put(@, range_key(start_tag, end_tag), pr_numbers)])

\* get_tag_range with a bug: a range that is not stored reads as empty.
get_tag_range_or_empty(d, repo, start_tag, end_tag) ==
  LET ranges == get_index(d, repo).tag_ranges
      k == range_key(start_tag, end_tag)
  IN  IF k \in DOMAIN ranges THEN Some(ranges[k]) ELSE Some(<<>>)

get_tag_range(d, repo, start_tag, end_tag) ==
  Get(get_index(d, repo).tag_ranges, range_key(start_tag, end_tag))

\* get_cached_updated_at with a bug: the PR's record is read, not the index.
get_cached_updated_at_of_record(d, repo, pr_number) ==
  LET pr_data == get_pr(d, repo, pr_number)
  IN  IF pr_data # None THEN Get(pr_data[1], "updated_at") ELSE None

get_cached_updated_at(d, repo, pr_number) ==
  LET pr_info == Get(get_index(d, repo).prs, Str(pr_number))
  IN  IF TruthyDict(pr_info) THEN Get(pr_info[1], "updated_at") ELSE None

is_pr_stale(d, repo, pr_number, current_updated_at) ==
  LET cached_updated_at == get_cached_updated_at(d, repo, pr_number)
  IN  IF cached_updated_at = None THEN TRUE
      ELSE StrLess(cached_updated_at[1], current_updated_at)

(***************************************************************************)
(* pr.py: the PR resolver.  One api_get call is one network call; the     *)
(* retry loop inside api_get is modelled by ApiAttempt below.             *)
(***************************************************************************)
SearchPerPage == 100
DefaultLimit == 1000

\* The object type of the tag reference on the server: "tag" for an
\* annotated tag, "commit" for a lightweight one.
TagKind(tag) == IF tag = <<"v", "2">> THEN "tag" ELSE "commit"

\* The api_get calls of get_tag_date, in order.
get_tag_date(tag) ==
  IF TagKind(tag) = "tag" THEN <<"ref", "tag", "commit">>
  ELSE <<"ref", "commit">>

\* Page `page` (of 100) of the items the search matches.
SearchPage(matches, page) ==
  SubSeq(matches, (page - 1) * SearchPerPage + 1,
         Min(page * SearchPerPage, Len(matches)))

\* The loop of search_prs from page `page` on: the items collected and
\* the number of requests made.
RECURSIVE SearchLoop(_, _, _, _, _)
SearchLoop(matches, limit, max_pages, page, results) ==
  IF page > max_pages THEN [results |-> results, calls |-> page - 1]
  ELSE LET items == SearchPage(matches, page)
           all == results \o items
       IN  IF Len(items) < SearchPerPage \/ Len(all) >= limit
           THEN [results |-> all, calls |-> page]
           ELSE SearchLoop(matches, limit, max_pages, page + 1, all)

\* Truncate with a bug: the whole list is returned.
Untruncated(results, limit) == results

\* results[:limit]
Truncate(results, limit) ==
  IF limit >= 0 THEN SubSeq(results, 1, Min(limit, Len(results)))
  ELSE SubSeq(results, 1, Max(Len(results) + limit, 0))

search_prs(matches, limit) ==
  LET max_pages == (limit + (SearchPerPage - 1)) \div SearchPerPage
      r == SearchLoop(matches, limit, max_pages, 1, <<>>)
  IN  [results |-> Truncate(r.results, limit), calls |-> r.calls]

\* list_prs_between_tags: both tag dates, then the merged-date search.
list_prs_between_tags(start_tag, end_tag, matches, limit) ==
  LET s == search_prs(matches, limit)
  IN  [results |-> s.results,
       calls |-> get_tag_date(start_tag) \o get_tag_date(end_tag)
                   \o [i \in 1..s.calls |-> "search"]]

\* LoadCached with a bug: the loop ends at the first number without a record.
RECURSIVE LoadCachedStopsAtMissing(_, _, _)
LoadCachedStopsAtMissing(d, repo, cached_numbers) ==
  IF cached_numbers = <<>> THEN <<>>
  ELSE LET pr_data == get_pr(d, repo, Head(cached_numbers))
       IN  IF pr_data # None /\ DOMAIN pr_data[1] # {}
           THEN <<pr_data[1]>>
                  \o LoadCachedStopsAtMissing(d, repo, Tail(cached_numbers))
           ELSE <<>>

\* The cache-hit loop of fetch_prs_between_tags.
RECURSIVE LoadCached(_, _, _)
LoadCached(d, repo, cached_numbers) ==
  IF cached_numbers = <<>> THEN <<>>
  ELSE LET pr_data == get_pr(d, repo, Head(cached_numbers))
       IN  (IF TruthyDict(pr_data) THEN <<pr_data[1]>> ELSE <<>>)
             \o LoadCached(d, repo, Tail(cached_numbers))

HasNumber(prs) == \A i \in 1..Len(prs) : "number" \in DOMAIN prs[i]

\* [pr["number"] for pr in prs]
NumbersOf(prs) == [i \in 1..Len(prs) |-> prs[i]["number"]]

(***************************************************************************)
(* filter.py: the compiler file classifier.                                *)
(***************************************************************************)
COMPILER_PATHS ==
  <<<<"C", "o", "m", "p", "i", "l", "e", "r", "/">>,
    <<"J", "u", "l", "i", "a", "S", "y", "n", "t", "a", "x", "/">>,
    <<"J", "u", "l", "i", "a", "L", "o", "w", "e", "r", "i", "n", "g", "/">>,
    <<"s", "r", "c", "/", "i", "n", "t", "e", "r", "p", "r", "e", "t", "e", "r", ".", "c">>>>

\* is_compiler_file with a bug: a compiler path anywhere in the name counts.
is_compiler_file_anywhere(filename) ==
  \E i \in 1..Len(COMPILER_PATHS), k \in 0..Len(filename) :
    StartsWith(SubSeq(filename, k + 1, Len(filename)), COMPILER_PATHS[i])

is_compiler_file(filename) ==
  \E i \in 1..Len(COMPILER_PATHS) : StartsWith(filename, COMPILER_PATHS[i])

\* f.get("filename", "")
FileName(f) == IF "filename" \in DOMAIN f THEN f["filename"] ELSE <<>>

\* get_compiler_files with a bug: every file name is kept.
get_all_files(files) == [i \in 1..Len(files) |-> FileName(files[i])]

RECURSIVE get_compiler_files(_)
get_compiler_files(files) ==
  IF files = <<>> THEN <<>>
  ELSE (IF is_compiler_file(FileName(Head(files)))
        THEN <<Head(files)["filename"]>> ELSE <<>>)
         \o get_compiler_files(Tail(files))

is_compiler_pr(files) ==
  \E i \in 1..Len(files) : is_compiler_file(FileName(files[i]))

File(path) == [filename |-> path]

\* The file lists the server answers get_pr_files with.
FileLists ==
  {<<>>,
   <<File(<<"C", "o", "m", "p", "i", "l", "e", "r", "/", "a">>)>>,
   <<File(<<"d", "o", "c", "/", "x">>)>>,
   <<File(<<"R", "E", "A", "D", "M", "E">>), File(<<"s", "r", "c", "/", "i", "n", "t", "e", "r", "p", "r", "e", "t", "e", "r", ".", "c">>)>>}

\* What one get_pr_files call gives: a file list, or an error.
FetchFailed == [ok |-> FALSE, files |-> <<>>]
FileOutcomes == {[ok |-> TRUE, files |-> f] : f \in FileLists} \cup {FetchFailed}

\* What the last operation was called with and what it did.
NoOp ==
  [op |-> "none", repo |-> <<>>, start |-> <<>>, end |-> <<>>,
   force |-> FALSE, limit |-> 0, path |-> "none", outcome |-> "none",
   netCalls |-> 0,
   prs |-> <<>>, matches |-> <<>>,
   pr_numbers |-> <<>>, fetch_missing |-> FALSE,
   compiler_prs |-> <<>>, pr_files_map |-> EmptyDict, srv |-> EmptyDict,
   key |-> "", writes |-> <<>>, calls |-> <<>>, arg |-> <<>>, result |-> <<>>]

\* FilterLoop with a bug: a failed fetch ends the loop.
RECURSIVE FilterLoopAbort(_, _, _, _, _, _, _)
FilterLoopAbort(d, repo, pr_numbers, fetch_missing, srv, i, acc) ==
  IF i > Len(pr_numbers) THEN [acc EXCEPT !.disk = d]
  ELSE
    LET pr_num == pr_numbers[i]
        pr_data == get_pr(d, repo, pr_num)
        cached == TruthyDict(pr_data) /\ "files" \in DOMAIN pr_data[1]
        fetch == ~cached /\ fetch_missing
        files == IF cached THEN pr_data[1]["files"]
                 ELSE IF fetch THEN srv[pr_num].files ELSE <<>>
        d2 == IF fetch /\ TruthyDict(pr_data)
              THEN save_pr(d, repo, pr_num, Put(pr_data[1], "files", files))
              ELSE d
        found == get_compiler_files(files)
        acc2 == [acc EXCEPT !.netCalls = @ + (IF fetch THEN 1 ELSE 0)]
    IN  IF fetch /\ ~srv[pr_num].ok THEN [acc2 EXCEPT !.disk = d]
        ELSE IF found # <<>>
        THEN FilterLoopAbort(d2, repo, pr_numbers, fetch_missing, srv, i + 1,
               [acc2 EXCEPT !.compiler_prs = Append(@, pr_num),
                            !.pr_files_map = Put(@, pr_num, found)])
        ELSE FilterLoopAbort(d2, repo, pr_numbers, fetch_missing, srv, i + 1, acc2)

\* The loop of filter_compiler_prs over pr_numbers[i..].  srv maps a PR
\* number to what get_pr_files gives for it.
RECURSIVE FilterLoop(_, _, _, _, _, _, _)
FilterLoop(d, repo, pr_numbers, fetch_missing, srv, i, acc) ==
  IF i > Len(pr_numbers) THEN [acc EXCEPT !.disk = d]
  ELSE
    LET pr_num == pr_numbers[i]
        pr_data == get_pr(d, repo, pr_num)
        cached == TruthyDict(pr_data) /\ "files" \in DOMAIN pr_data[1]
        fetch == ~cached /\ fetch_missing
        failed == fetch /\ ~srv[pr_num].ok
        files == IF cached THEN Some(pr_data[1]["files"])
                 ELSE IF fetch /\ ~failed THEN Some(srv[pr_num].files)
                 ELSE None
        d2 == IF fetch /\ ~failed /\ TruthyDict(pr_data)
              THEN save_pr(d, repo, pr_num, Put(pr_data[1], "files", srv[pr_num].files))
              ELSE d
        compiler_files ==
          IF files # None THEN get_compiler_files(files[1]) ELSE <<>>
        acc2 == [acc EXCEPT !.netCalls = @ + (IF fetch THEN 1 ELSE 0)]
    IN  IF ~failed /\ compiler_files # <<>>
        THEN FilterLoop(d2, repo, pr_numbers, fetch_missing, srv, i + 1,
               [acc2 EXCEPT !.compiler_prs = Append(@, pr_num),
                            !.pr_files_map = Put(@, pr_num, compiler_files)])
        ELSE FilterLoop(d2, repo, pr_numbers, fetch_missing, srv, i + 1, acc2)

filter_compiler_prs(d, pr_numbers, repo, fetch_missing, srv) ==
  FilterLoop(d, repo, pr_numbers, fetch_missing, srv, 1,
             [disk |-> d, compiler_prs |-> <<>>, pr_files_map |-> EmptyDict,
              netCalls |-> 0])

Limits == (0..MaxLimit) \cup {DefaultLimit}

\* fetch_prs_between_tags(start_tag, end_tag, cache, repo, limit,
\* force_refresh).  matches is what the merged-date search matches on the
\* server; failAt is the network call that fails (0: none does).
fetch_prs_between_tags(repo, start_tag, end_tag, limit, force_refresh, matches, failAt) ==
  LET cached_numbers ==
        IF force_refresh THEN None
        ELSE get_tag_range(disk, repo, start_tag, end_tag)
      call == [NoOp EXCEPT !.op = "fetch", !.repo = repo,
                 !.start = start_tag, !.end = end_tag,
                 !.force = force_refresh, !.limit = limit]
      net == list_prs_between_tags(start_tag, end_tag, matches, limit)
      prs == net.results
      saved == save_prs_batch(disk, repo, prs, "number")
  IN  IF cached_numbers # None
      THEN /\ disk' = disk
           /\ last' = [call EXCEPT !.path = "hit", !.outcome = "ok",
                         !.prs = LoadCached(disk, repo, cached_numbers[1])]
      ELSE IF failAt > 0
      THEN /\ failAt <= Len(net.calls)
           /\ disk' = disk
           /\ last' = [call EXCEPT !.path = "miss", !.outcome = "APIError",
                         !.netCalls = failAt]
      ELSE IF ~HasNumber(prs)
      THEN /\ disk' = saved
           /\ last' = [call EXCEPT !.path = "miss", !.outcome = "KeyError",
                         !.netCalls = Len(net.calls), !.matches = matches]
      ELSE /\ disk' = mark_tag_range_fetched(saved, repo, start_tag, end_tag,
                                             NumbersOf(prs))
           /\ last' = [call EXCEPT !.path = "miss", !.outcome = "ok",
                         !.netCalls = Len(net.calls), !.prs = prs,
                         !.matches = matches]

\* The longest call sequence of list_prs_between_tags in the model: two
\* annotated tags and one search page.
MaxFail == 7

\* A failed network call discards what the calls before it returned, so the
\* failing runs draw the matched items from one item only.
FailMatches == SeqsUpTo({PR(1, <<"9">>)}, MaxMatches)

Fetch ==
  /\ nops < MaxOps
  /\ \E repo \in Repos, pair \in TagPairs, force_refresh \in BOOLEAN,
        limit \in Limits :
       \/ \E matches \in SeqsUpTo(SearchItems, MaxMatches) :
            fetch_prs_between_tags(repo, pair[1], pair[2], limit,
                                   force_refresh, matches, 0)
       \/ \E matches \in FailMatches, failAt \in 1..MaxFail :
            /\ force_refresh
                 \/ get_tag_range(disk, repo, pair[1], pair[2]) = None
            /\ fetch_prs_between_tags(repo, pair[1], pair[2], limit,
                                      force_refresh, matches, failAt)
  /\ nops' = nops + 1
  /\ UNCHANGED <<api, pag>>

NumbersIn(pr_numbers) == {pr_numbers[i] : i \in 1..Len(pr_numbers)}

Filter ==
  /\ nops < MaxOps
  /\ \E repo \in Repos, fetch_missing \in BOOLEAN,
        pr_numbers \in SeqsUpTo(Numbers, MaxMatches) :
       \E srv \in IF fetch_missing
                  THEN [NumbersIn(pr_numbers) -> FileOutcomes]
                  ELSE {[n \in NumbersIn(pr_numbers) |-> FetchFailed]} :
         LET r == filter_compiler_prs(disk, pr_numbers, repo, fetch_missing, srv)
         IN  /\ disk' = r.disk
             /\ last' = [NoOp EXCEPT !.op = "filter", !.repo = repo,
                           !.outcome = "ok", !.netCalls = r.netCalls,
                           !.pr_numbers = pr_numbers,
                           !.fetch_missing = fetch_missing,
                           !.compiler_prs = r.compiler_prs,
                           !.pr_files_map = r.pr_files_map]
  /\ nops' = nops + 1
  /\ UNCHANGED <<api, pag>>


(***************************************************************************)
(* client.py: api_get.  One ApiAttempt step is one iteration of the retry *)
(* loop: the request, its response and what the loop does with it.  Time  *)
(* is in whole seconds; a request takes 0..MaxLatency seconds and a sleep *)
(* takes what it was asked for.                                           *)
(***************************************************************************)
StartTime == 100
RateLimitWaitCap == 60

\* X-RateLimit-Reset values the server sends.
ResetTimes ==
  {StartTime - 5, StartTime + 58, StartTime + 59, StartTime + 70}
    \cup {StartTime + 5 + l : l \in 0..MaxLatency}

Bodies == {"body1", "body2"}

Response(status, remaining, reset, body) ==
  [status |-> status, remaining |-> remaining, reset |-> reset, body |-> body]

OkResponse == Response(200, None, None, "json")

LimitedResponse(reset) == Response(403, Some("0"), reset, "rate limited")

Responses ==
  {OkResponse}
    \cup {Response(st, None, None, b) : st \in {404, 500}, b \in Bodies}
    \cup {Response(403, r, None, b) : r \in {None, Some("5")}, b \in Bodies}
    \cup {LimitedResponse(x) : x \in {None} \cup {Some(t) : t \in ResetTimes}}

\* is_rate_limited with a bug: every 403 counts as rate limited.
is_rate_limited_any_403(resp) == resp.status = 403

\* response.status_code == 403 and headers.get("X-RateLimit-Remaining") == "0"
is_rate_limited(resp) == resp.status = 403 /\ resp.remaining = Some("0")

\* int(response.headers.get("X-RateLimit-Reset", 0))
reset_time_of(resp) == IF resp.reset = None THEN 0 ELSE resp.reset[1]

\* max(reset_time - time.time(), 0) + 1
wait_time_of(reset_time, now) == Max(reset_time - now, 0) + 1

\* should_retry with a bug: the attempts left are not looked at.
should_retry_any_attempt(attempt, max_retries, wait_time) ==
  wait_time < RateLimitWaitCap

\* attempt < max_retries - 1 and wait_time < 60
should_retry(attempt, max_retries, wait_time) ==
  attempt < max_retries - 1 /\ wait_time < RateLimitWaitCap

\* backoff with a bug: 2 ** attempt.
backoff_from_one(wait_time, attempt) == Min(wait_time, Pow2(attempt))

\* backoff with a bug: the whole wait is slept.
backoff_uncapped(wait_time, attempt) == wait_time

\* min(wait_time, 2 ** (attempt + 1))
backoff(wait_time, attempt) == Min(wait_time, Pow2(attempt + 1))

NoError ==
  [message |-> "", status_code |-> 0, response_body |-> "", reset_time |-> None]

RateLimitError(reset_time) ==
  [message |-> "Rate limit exceeded", status_code |-> 403,
   response_body |-> "Rate limit exceeded", reset_time |-> Some(reset_time)]

GitHubAPIError(message, status_code, response_body) ==
  [message |-> message, status_code |-> status_code,
   response_body |-> response_body, reset_time |-> None]

ApiIdle ==
  [phase |-> "idle", max_retries |-> 0, attempt |-> 0, now |-> StartTime,
   requests |-> <<>>, sleeps |-> <<>>, outcome |-> "none", err |-> NoError]

\* api_get is called.
ApiCall ==
  /\ api.phase = "idle"
  /\ \E max_retries \in 0..MaxRetries :
       api' = [ApiIdle EXCEPT !.phase = "running", !.max_retries = max_retries]
  /\ UNCHANGED <<disk, last, nops, pag>>

\* One iteration of `for attempt in range(max_retries)`.
ApiAttempt ==
  /\ api.phase = "running"
  /\ api.attempt < api.max_retries
  /\ \E resp \in Responses, latency \in 0..MaxLatency :
       LET now == api.now + latency
           sent == [api EXCEPT
                      !.now = now,
                      !.requests = Append(@, [sent |-> api.now, recv |-> now,
                                              resp |-> resp])]
           reset_time == reset_time_of(resp)
           wait_time == wait_time_of(reset_time, now)
       IN  IF resp.status = 200
           THEN api' = [sent EXCEPT !.phase = "done", !.outcome = "return"]
           ELSE IF is_rate_limited(resp)
           THEN IF should_retry(api.attempt, api.max_retries, wait_time)
                THEN api' = [sent EXCEPT
                               !.sleeps = Append(@, backoff(wait_time, api.attempt)),
                               !.now = now + backoff(wait_time, api.attempt),
                               !.attempt = @ + 1]
                ELSE api' = [sent EXCEPT !.phase = "done",
                               !.outcome = "RateLimitError",
                               !.err = RateLimitError(reset_time)]
           ELSE api' = [sent EXCEPT !.phase = "done",
                          !.outcome = "GitHubAPIError",
                          !.err = GitHubAPIError("GitHub API error",
                                                 resp.status, resp.body)]
  /\ UNCHANGED <<disk, last, nops, pag>>

\* The loop ends without a return or a raise.
ApiExhausted ==
  /\ api.phase = "running"
  /\ api.attempt >= api.max_retries
  /\ api' = [api EXCEPT !.phase = "done", !.outcome = "GitHubAPIError",
               !.err = GitHubAPIError("Max retries exceeded", 0, "")]
  /\ UNCHANGED <<disk, last, nops, pag>>



(***************************************************************************)
(* client.py: api_get_paginated.  The server holds the pages sizes[1],    *)
(* sizes[2], ... and pages of `rest` items after them; item i of page p   *)
(* is <<p, i>>.  failAt is the api_get call that raises (0: none does).   *)
(***************************************************************************)
DefaultPerPage == 100
DefaultMaxPages == 10

PerPages == {2, DefaultPerPage}

PageSizes(per_page) ==
  {0, per_page - 1, per_page} \cup (IF per_page = 100 THEN {37} ELSE {})

PageSize(sizes, rest, page) ==
  IF page <= Len(sizes) THEN sizes[page] ELSE rest

ServerPage(sizes, rest, page) ==
  [i \in 1..PageSize(sizes, rest, page) |-> <<page, i>>]

\* PageLoop with a bug: only an empty page ends the loop early.
RECURSIVE PageLoopNoShortBreak(_, _, _, _, _, _, _, _)
PageLoopNoShortBreak(sizes, rest, max_pages, per_page, failAt, page, results, calls) ==
  IF page > max_pages
  THEN [outcome |-> "return", results |-> results, calls |-> calls]
  ELSE IF failAt = page
  THEN [outcome |-> "GitHubAPIError", results |-> <<>>,
        calls |-> Append(calls, page)]
  ELSE LET page_results == ServerPage(sizes, rest, page)
       IN  IF page_results = <<>>
           THEN [outcome |-> "return", results |-> results,
                 calls |-> Append(calls, page)]
           ELSE PageLoopNoShortBreak(sizes, rest, max_pages, per_page, failAt,
                                     page + 1, results \o page_results,
                                     Append(calls, page))

\* The loop of api_get_paginated from page `page` on.
RECURSIVE PageLoop(_, _, _, _, _, _, _, _)
PageLoop(sizes, rest, max_pages, per_page, failAt, page, results, calls) ==
  IF page > max_pages
  THEN [outcome |-> "return", results |-> results, calls |-> calls]
  ELSE IF failAt = page
  THEN [outcome |-> "GitHubAPIError", results |-> <<>>,
        calls |-> Append(calls, page)]
  ELSE LET page_results == ServerPage(sizes, rest, page)
       IN  IF page_results = <<>>
           THEN [outcome |-> "return", results |-> results,
                 calls |-> Append(calls, page)]
           ELSE IF Len(page_results) < per_page
           THEN [outcome |-> "return", results |-> results \o page_results,
                 calls |-> Append(calls, page)]
           ELSE PageLoop(sizes, rest, max_pages, per_page, failAt, page + 1,
                         results \o page_results, Append(calls, page))

api_get_paginated(sizes, rest, max_pages, per_page, failAt) ==
  PageLoop(sizes, rest, max_pages, per_page, failAt, 1, <<>>, <<>>)

PagIdle ==
  [phase |-> "idle", sizes |-> <<>>, rest |-> 0, max_pages |-> 0,
   per_page |-> 0, outcome |-> "none", results |-> <<>>, calls |-> <<>>]

Paginate ==
  /\ pag.phase = "idle"
  /\ \E per_page \in PerPages,
        max_pages \in (0..MaxPagesArg) \cup {DefaultMaxPages},
        failAt \in 0..MaxPagesArg :
       \E sizes \in SeqsUpTo(PageSizes(per_page), MaxServerPages),
          rest \in {0, per_page} :
         LET r == api_get_paginated(sizes, rest, max_pages, per_page, failAt)
         IN  /\ failAt > 0 => r.outcome = "GitHubAPIError"
             /\ pag' = [phase |-> "done", sizes |-> sizes, rest |-> rest,
                        max_pages |-> max_pages, per_page |-> per_page,
                        outcome |-> r.outcome, results |-> r.results,
                        calls |-> r.calls]
  /\ UNCHANGED <<disk, last, nops, api>>

Init ==
  /\ disk = [dir \in Dirs |-> EmptyDir]
  /\ last = NoOp
  /\ nops = 0
  /\ api = ApiIdle
  /\ pag = PagIdle

Next == Fetch \/ Filter

Spec == Init /\ [][Next]_vars

NextPag == Paginate

SpecPag == Init /\ [][NextPag]_vars

NextApi == ApiCall \/ ApiAttempt \/ ApiExhausted

SpecApi == Init /\ [][NextApi]_vars

(***************************************************************************)
(* The classifier functions called on their own, on lists of file entries. *)
(***************************************************************************)
ClassifyPaths ==
  {<<"C", "o", "m", "p", "i", "l", "e", "r", "/", "a">>,
   <<"C", "o", "m", "p", "i", "l", "e", "r", "/">>,
   <<"C", "o", "m", "p", "i", "l", "e", "r">>,
   <<"x", "C", "o", "m", "p", "i", "l", "e", "r", "/", "a">>,
   <<"d", "o", "c", "/", "C", "o", "m", "p", "i", "l", "e", "r", "/", "a">>,
   <<"s", "r", "c", "/", "i", "n", "t", "e", "r", "p", "r", "e", "t", "e", "r", ".", "c">>,
   <<"s", "r", "c", "/", "i", "n", "t", "e", "r", "p", "r", "e", "t", "e", "r", ".", "c", "p", "p">>,
   <<"s", "r", "c", "/", "i", "n", "t", "e", "r", "p", "r", "e", "t", "e", "r", ".", "h">>,
   <<"J", "u", "l", "i", "a", "S", "y", "n", "t", "a", "x", "/", "x">>,
   <<"J", "u", "l", "i", "a", "L", "o", "w", "e", "r", "i", "n", "g", "/", "y">>,
   <<"j", "u", "l", "i", "a", "l", "o", "w", "e", "r", "i", "n", "g", "/", "y">>,
   <<>>,
   <<"R", "E", "A", "D", "M", "E">>}

\* A file entry without a filename.
NamelessFile == [status |-> <<"a">>]

ClassifyEntries == {File(p) : p \in ClassifyPaths} \cup {NamelessFile}

ClassifyCall ==
  /\ nops < MaxClassifyCalls
  /\ \E files \in SeqsUpTo(ClassifyEntries, MaxFiles) :
       last' = [NoOp EXCEPT !.op = "classify", !.outcome = "ok",
                  !.arg = files,
                  !.result =
                    [is_compiler_file |->
                       [i \in 1..Len(files) |-> is_compiler_file(FileName(files[i]))],
                     get_compiler_files |-> get_compiler_files(files),
                     is_compiler_pr |-> is_compiler_pr(files)]]
  /\ nops' = nops + 1
  /\ UNCHANGED <<disk, api, pag>>

NextClassify == ClassifyCall

SpecClassify == Init /\ [][NextClassify]_vars

(***************************************************************************)
(* The cache operations called directly (PRCache is a public class).      *)
(***************************************************************************)
\* The records save_pr is called with: what a search returns, and a record
\* with a file list.
SavedRecords ==
  SearchItems
    \cup {Put(PR(2, <<"9">>), "files",
               <<File(<<"R", "E", "A", "D", "M", "E">>), File(<<"C", "o", "m", "p", "i", "l", "e", "r", "/", "a">>)>>)}

CacheSavePr ==
  /\ nops < MaxCacheOps
  /\ \E repo \in Repos, pr_number \in Numbers, data \in SavedRecords :
       /\ disk' = save_pr(disk, repo, pr_number, data)
       /\ last' = [NoOp EXCEPT !.op = "save_pr", !.repo = repo,
                     !.outcome = "ok", !.pr_numbers = <<pr_number>>,
                     !.prs = <<data>>]
  /\ nops' = nops + 1
  /\ UNCHANGED <<api, pag>>

CacheSavePrsBatch ==
  /\ nops < MaxCacheOps
  /\ \E repo \in Repos, prs \in SeqsUpTo(SearchItems, MaxBatch) :
       /\ disk' = save_prs_batch(disk, repo, prs, "number")
       /\ last' = [NoOp EXCEPT !.op = "save_prs_batch", !.repo = repo,
                     !.outcome = "ok", !.prs = prs]
  /\ nops' = nops + 1
  /\ UNCHANGED <<api, pag>>

CacheMarkTagRange ==
  /\ nops < MaxCacheOps
  /\ \E repo \in Repos, pair \in TagPairs,
        pr_numbers \in SeqsUpTo(Numbers, MaxBatch) :
       /\ disk' = mark_tag_range_fetched(disk, repo, pair[1], pair[2],
                                         pr_numbers)
       /\ last' = [NoOp EXCEPT !.op = "mark_tag_range_fetched",
                     !.repo = repo, !.start = pair[1], !.end = pair[2],
                     !.outcome = "ok", !.pr_numbers = pr_numbers]
  /\ nops' = nops + 1
  /\ UNCHANGED <<api, pag>>

\* The index values save_index is called with directly.
IndexValues ==
  {[prs |-> p, tag_ranges |-> t] :
     p \in {EmptyDict, Put(EmptyDict, Str(1), Summary(PR(1, <<"9">>)))},
     t \in {EmptyDict,
            Put(EmptyDict, range_key(<<"v", "1">>, <<"v", "2">>), <<1>>)}}

CacheSaveIndex ==
  /\ nops < MaxCacheOps
  /\ \E repo \in Repos, index \in IndexValues :
       /\ disk' = save_index(disk, repo, index)
       /\ last' = [NoOp EXCEPT !.op = "save_index", !.repo = repo,
                     !.outcome = "ok"]
  /\ nops' = nops + 1
  /\ UNCHANGED <<api, pag>>

\* The reads: get_pr, get_index, get_tag_range, get_cached_updated_at.  A
\* read writes no file (the directory it creates is the empty directory of
\* the model).
CacheRead ==
  /\ nops < MaxCacheOps
  /\ \E repo \in Repos :
       LET call == [NoOp EXCEPT !.repo = repo, !.outcome = "ok"]
       IN  \/ \E n \in Numbers :
                last' = [call EXCEPT !.op = "get_pr", !.pr_numbers = <<n>>,
                           !.result = get_pr(disk, repo, n)]
           \/ last' = [call EXCEPT !.op = "get_index",
                         !.result = Some(get_index(disk, repo))]
           \/ \E pair \in TagPairs :
                last' = [call EXCEPT !.op = "get_tag_range",
                           !.start = pair[1], !.end = pair[2],
                           !.result = get_tag_range(disk, repo, pair[1], pair[2])]
           \/ \E n \in Numbers :
                last' = [call EXCEPT !.op = "get_cached_updated_at",
                           !.pr_numbers = <<n>>,
                           !.result = get_cached_updated_at(disk, repo, n)]
  /\ disk' = disk
  /\ nops' = nops + 1
  /\ UNCHANGED <<api, pag>>

NextCache ==
  \/ CacheSavePr \/ CacheSavePrsBatch \/ CacheMarkTagRange \/ CacheSaveIndex
  \/ CacheRead

SpecCache == Init /\ [][NextCache]_vars

(***************************************************************************)
(* filter_compiler_prs called on a cache that earlier save_pr calls filled: *)
(* each PR number has no record, an empty record, a record without a file  *)
(* list or a record with one.                                              *)
(***************************************************************************)
RecordsOf(n) ==
  {EmptyDict, PR(n, <<"9">>)}
    \cup {Put(PR(n, <<"9">>), "files", f) : f \in FileLists}

\* The pr_<n>.json files of a set S of numbers, each with a record of its number.
FilesOf(S) ==
  {p \in [{pr_file(n) : n \in S}
             -> UNION {{json_dumps(r) : r \in RecordsOf(n)} : n \in S}] :
     \A n \in S : p[pr_file(n)] \in {json_dumps(r) : r \in RecordsOf(n)}}

FilledCaches ==
  {[dir \in Dirs |-> [prs |-> p, index |-> None]] :
     p \in UNION {FilesOf(S) : S \in SUBSET Numbers}}

InitFilter ==
  /\ disk \in FilledCaches
  /\ last = NoOp
  /\ nops = 0
  /\ api = ApiIdle
  /\ pag = PagIdle

\* The record of pr_num has a file list: pr_data and "files" in pr_data
HasFiles(d, repo, pr_num) ==
  /\ TruthyDict(get_pr(d, repo, pr_num))
  /\ "files" \in DOMAIN get_pr(d, repo, pr_num)[1]

FilterCall ==
  /\ nops < MaxFilterOps
  /\ \E repo \in Repos, fetch_missing \in BOOLEAN,
        pr_numbers \in SeqsUpTo(Numbers, MaxFilterLen) :
       \E srv \in IF fetch_missing
                  THEN [{n \in NumbersIn(pr_numbers) : ~HasFiles(disk, repo, n)}
                          -> FileOutcomes]
                  ELSE {EmptyDict} :
         LET r == filter_compiler_prs(disk, pr_numbers, repo, fetch_missing, srv)
         IN  /\ disk' = r.disk
             /\ last' = [NoOp EXCEPT !.op = "filter", !.repo = repo,
                           !.outcome = "ok", !.netCalls = r.netCalls,
                           !.pr_numbers = pr_numbers,
                           !.fetch_missing = fetch_missing,
                           !.compiler_prs = r.compiler_prs,
                           !.pr_files_map = r.pr_files_map,
                           !.srv = srv]
  /\ nops' = nops + 1
  /\ UNCHANGED <<api, pag>>

NextFilter == FilterCall

SpecFilter == InitFilter /\ [][NextFilter]_vars

(***************************************************************************)
(* save_prs_batch called on a cache that an earlier save_prs_batch and     *)
(* mark_tag_range_fetched filled.                                          *)
(***************************************************************************)
\* A record with an id and no number.
IdPR == [id |-> 2, title |-> <<"t">>, updated_at |-> <<"9">>]

BatchItems == SearchItems \cup {IdPR}

BatchKeys == {"number", "id"}

PriorCaches ==
  LET empty == [dir \in Dirs |-> EmptyDir]
  IN  {empty}
        \cup {save_prs_batch(empty, repo, <<pr>>, "number") :
                repo \in Repos, pr \in SearchItems}
        \cup {mark_tag_range_fetched(
                save_prs_batch(empty, repo, <<pr>>, "number"),
                repo, pair[1], pair[2], NumbersOf(<<pr>>)) :
                repo \in Repos, pr \in SearchItems \ {NoNumberPR},
                pair \in TagPairs}

InitBatch ==
  /\ disk \in PriorCaches
  /\ last = NoOp
  /\ nops = 0
  /\ api = ApiIdle
  /\ pag = PagIdle

BatchCall ==
  /\ nops < MaxBatchCalls
  /\ \E repo \in Repos, key \in BatchKeys,
        prs \in SeqsUpTo(BatchItems, MaxBatchLen) :
       /\ disk' = save_prs_batch(disk, repo, prs, key)
       /\ last' = [NoOp EXCEPT !.op = "save_prs_batch", !.repo = repo,
                     !.outcome = "ok", !.prs = prs, !.key = key,
                     !.writes = BatchWrites(prs, key)]
  /\ nops' = nops + 1
  /\ UNCHANGED <<api, pag>>

NextBatch == BatchCall

SpecBatch == InitBatch /\ [][NextBatch]_vars

(***************************************************************************)
(* search_prs called on its own: the search matches the items 1..n.        *)
(***************************************************************************)
SearchSizes ==
  (0..3) \cup {SearchPerPage - 1, SearchPerPage, SearchPerPage + 1,
               2 * SearchPerPage - 1, 2 * SearchPerPage, 2 * SearchPerPage + 1,
               2 * SearchPerPage + 50, 3 * SearchPerPage}

SearchLimits ==
  {0 - SearchPerPage - 1, 0 - SearchPerPage, 0 - 1, 0, 1, 2,
   SearchPerPage - 1, SearchPerPage, SearchPerPage + 1, SearchPerPage + 50,
   2 * SearchPerPage - 1, 2 * SearchPerPage, 2 * SearchPerPage + 1,
   3 * SearchPerPage, DefaultLimit}

SearchCall ==
  /\ nops < MaxSearchCalls
  /\ \E n \in SearchSizes, limit \in SearchLimits :
       LET matches == [i \in 1..n |-> i]
           r == search_prs(matches, limit)
       IN  last' = [NoOp EXCEPT !.op = "search", !.outcome = "ok",
                      !.limit = limit, !.matches = matches,
                      !.prs = r.results, !.netCalls = r.calls]
  /\ nops' = nops + 1
  /\ UNCHANGED <<disk, api, pag>>

NextSearch == SearchCall

SpecSearch == Init /\ [][NextSearch]_vars

(***************************************************************************)
(* get_tag_date called on its own.  The server holds, for the tag, the     *)
(* reference's object (sha and type), the commit an annotated tag object   *)
(* points to, and the committer date of every commit.                      *)
(***************************************************************************)
Shas == {"s1", "s2"}

TagServers ==
  [type : {"tag", "commit"}, ref_sha : Shas, tag_target : Shas,
   commit_date : [Shas -> Timestamps]]

FailStatuses == {404, 500}

\* The endpoints: /git/ref/tags/{tag}, /git/tags/{sha}, /git/commits/{sha}
RefEndpoint(tag) == [kind |-> "ref", of |-> tag]
TagEndpoint(sha) == [kind |-> "tag", of |-> sha]
CommitEndpoint(sha) == [kind |-> "commit", of |-> sha]

\* tag_info["object"]["type"] == "tag" with a bug: every tag is annotated.
always_annotated(srv) == TRUE

\* tag_info["object"]["type"] == "tag"
is_annotated(srv) == srv.type = "tag"

\* One run of get_tag_date: the lookups issued, in order, and how it ends.
\* failAt is the lookup that fails with `status` (0: none fails).
get_tag_date_run(srv, tag, failAt, status) ==
  LET failed(calls) ==
        [outcome |-> "GitHubAPIError", calls |-> calls, date |-> None,
         status |-> status]
      first == <<RefEndpoint(tag)>>
      tag_sha == srv.ref_sha
      second == IF is_annotated(srv) THEN first \o <<TagEndpoint(tag_sha)>>
                ELSE first
      commit_sha == IF is_annotated(srv) THEN srv.tag_target ELSE tag_sha
      third == second \o <<CommitEndpoint(commit_sha)>>
  IN  IF failAt = 1 THEN failed(first)
      ELSE IF is_annotated(srv) /\ failAt = 2 THEN failed(second)
      ELSE IF failAt = Len(third) THEN failed(third)
      ELSE [outcome |-> "return", calls |-> third,
            date |-> Some(srv.commit_date[commit_sha]), status |-> 200]

TagDateCall ==
  /\ nops < MaxTagCalls
  /\ \E srv \in TagServers, tag \in Tags, failAt \in 0..3,
        status \in FailStatuses :
       /\ failAt <= (IF srv.type = "tag" THEN 3 ELSE 2)
       /\ LET r == get_tag_date_run(srv, tag, failAt, status)
          IN  last' = [NoOp EXCEPT !.op = "get_tag_date",
                         !.outcome = r.outcome, !.start = tag,
                         !.calls = r.calls, !.result = r.date,
                         !.arg = [srv |-> srv, failAt |-> failAt,
                                  status |-> r.status]]
  /\ nops' = nops + 1
  /\ UNCHANGED <<disk, api, pag>>

NextTagDate == TagDateCall

SpecTagDate == Init /\ [][NextTagDate]_vars

(***************************************************************************)
(* fetch_prs_between_tags step by step: one step for the cache check (and  *)
(* the whole cache hit), one for each api_get call of                      *)
(* list_prs_between_tags, one for each record save_prs_batch handles, one  *)
(* for its save_index, one for mark_tag_range_fetched.  The process may be *)
(* stopped between any two steps.  While an operation runs, last.key is    *)
(* its stage, last.arg[1] the next step of the write stage, last.result    *)
(* what get_tag_range returned for the range when the operation began and  *)
(* last.srv the files of the cache at that time.                           *)
(***************************************************************************)
\* write_stage with a bug: mark_tag_range_fetched before the index of the
\* batch is saved.
write_stage_mark_first(prs, pc) ==
  IF pc <= Len(prs) THEN "record"
  ELSE IF pc = Len(prs) + 1 THEN "mark" ELSE "index"

\* What step pc of the write stage does: the loop of save_prs_batch, its
\* save_index, then pr_numbers and mark_tag_range_fetched.
write_stage(prs, pc) ==
  IF pc <= Len(prs) THEN "record"
  ELSE IF pc = Len(prs) + 1 THEN "index" ELSE "mark"

Running == last.op = "fetch" /\ last.outcome = "running"

MissBegin ==
  /\ nops < MaxMissOps
  /\ ~Running
  /\ \E repo \in Repos, pair \in TagPairs, force_refresh \in BOOLEAN,
        limit \in Limits, matches \in SeqsUpTo(SearchItems, MaxMatches) :
       LET cached_numbers ==
             IF force_refresh THEN None
             ELSE get_tag_range(disk, repo, pair[1], pair[2])
           call == [NoOp EXCEPT !.op = "fetch", !.repo = repo,
                      !.start = pair[1], !.end = pair[2],
                      !.force = force_refresh, !.limit = limit,
                      !.result = get_tag_range(disk, repo, pair[1], pair[2]),
                      !.srv = disk]
       IN  IF cached_numbers # None
           THEN /\ matches = <<>>
                /\ last' = [call EXCEPT !.path = "hit", !.outcome = "ok",
                              !.prs = LoadCached(disk, repo, cached_numbers[1])]
           ELSE last' = [call EXCEPT !.path = "miss", !.outcome = "running",
                           !.key = "net", !.matches = matches]
  /\ disk' = disk
  /\ nops' = nops + 1
  /\ UNCHANGED <<api, pag>>

\* MissCall with a bug: a failed call stores an empty range.
MissCallMarksFailure ==
  /\ Running /\ last.key = "net"
  /\ last' = [last EXCEPT !.outcome = "APIError", !.netCalls = @ + 1]
  /\ disk' = mark_tag_range_fetched(disk, last.repo, last.start, last.end, <<>>)
  /\ UNCHANGED <<nops, api, pag>>

\* One api_get call of list_prs_between_tags: it fails, or it answers; the
\* answer of the last one completes the list of records.
MissCall ==
  /\ Running /\ last.key = "net"
  /\ LET net == list_prs_between_tags(last.start, last.end, last.matches,
                                      last.limit)
     IN  \E ok \in BOOLEAN :
           last' = IF ~ok
                   THEN [last EXCEPT !.outcome = "APIError",
                                     !.netCalls = @ + 1]
                   ELSE IF last.netCalls + 1 < Len(net.calls)
                   THEN [last EXCEPT !.netCalls = @ + 1]
                   ELSE [last EXCEPT !.netCalls = @ + 1, !.key = "write",
                                     !.prs = net.results, !.arg = <<1>>]
  /\ disk' = disk
  /\ UNCHANGED <<nops, api, pag>>

\* One step of the write stage.  The index save_prs_batch saves is the one
\* it read when it began with the summaries of the batch; no step before
\* it writes index.json, so it is computed from the index on the disk.
MissWrite ==
  /\ Running /\ last.key = "write"
  /\ LET prs == last.prs
         pc == last.arg[1]
         stage == write_stage(prs, pc)
         done == pc >= Len(prs) + 2
         step == [last EXCEPT !.arg = <<pc + 1>>,
                              !.outcome = IF done THEN "ok" ELSE @]
     IN  IF stage = "record"
         THEN LET pr_number == Get(prs[pc], "number")
              IN  IF TruthyInt(pr_number)
                  THEN /\ disk' = save_pr(disk, last.repo, pr_number[1], prs[pc])
                       /\ last' = [step EXCEPT
                                     !.writes = Append(@, pr_file(pr_number[1]))]
                  ELSE /\ disk' = disk
                       /\ last' = step
         ELSE IF stage = "index"
         THEN /\ disk' = save_index(disk, last.repo,
                           SaveBatchLoop(disk, last.repo, prs, "number",
                                         get_index(disk, last.repo), 1).index)
              /\ last' = [step EXCEPT !.writes = Append(@, IndexFile)]
         ELSE IF ~HasNumber(prs)
         THEN /\ disk' = disk
              /\ last' = [last EXCEPT !.outcome = "KeyError"]
         ELSE /\ disk' = mark_tag_range_fetched(disk, last.repo, last.start,
                                                last.end, NumbersOf(prs))
              /\ last' = [step EXCEPT !.writes = Append(@, IndexFile)]
  /\ UNCHANGED <<nops, api, pag>>

\* The process is stopped between two steps.
MissStop ==
  /\ Running
  /\ last' = [last EXCEPT !.outcome = "stopped"]
  /\ disk' = disk
  /\ UNCHANGED <<nops, api, pag>>

NextMiss == MissBegin \/ MissCall \/ MissWrite \/ MissStop

\* The caches an operation may find: the empty one, and one in which an
\* earlier fetch stored PR 1 and a range listing it.
FetchedCaches ==
  {[dir \in Dirs |-> EmptyDir]}
    \cup {mark_tag_range_fetched(
            save_prs_batch([dir \in Dirs |-> EmptyDir], repo,
                           <<PR(1, <<"9">>)>>, "number"),
            repo, <<"v", "1">>, <<"v", "2">>, <<1>>) : repo \in Repos}

InitMiss ==
  /\ disk \in FetchedCaches
  /\ last = NoOp
  /\ nops = 0
  /\ api = ApiIdle
  /\ pag = PagIdle

SpecMiss == InitMiss /\ [][NextMiss]_vars

(***************************************************************************)
(* The cache written for several repositories.  "a/b_c" and "a_b/c" are    *)
(* different repositories (owner a, owner a_b).                            *)
(***************************************************************************)
RepoIds ==
  {<<"a", "/", "b", "_", "c">>,
   <<"a", "_", "b", "/", "c">>,
   <<"a", "/", "c">>}

RepoDirs == {get_repo_dir(r) : r \in RepoIds}

InitRepos ==
  /\ disk = [dir \in RepoDirs |-> EmptyDir]
  /\ last = NoOp
  /\ nops = 0
  /\ api = ApiIdle
  /\ pag = PagIdle

RepoSavePr ==
  /\ nops < MaxRepoOps
  /\ \E repo \in RepoIds, pr_number \in Numbers, data \in SearchItems :
       /\ disk' = save_pr(disk, repo, pr_number, data)
       /\ last' = [NoOp EXCEPT !.op = "save_pr", !.repo = repo,
                     !.outcome = "ok", !.pr_numbers = <<pr_number>>,
                     !.prs = <<data>>]
  /\ nops' = nops + 1
  /\ UNCHANGED <<api, pag>>

RepoSaveIndex ==
  /\ nops < MaxRepoOps
  /\ \E repo \in RepoIds, index \in IndexValues :
       /\ disk' = save_index(disk, repo, index)
       /\ last' = [NoOp EXCEPT !.op = "save_index", !.repo = repo,
                     !.outcome = "ok"]
  /\ nops' = nops + 1
  /\ UNCHANGED <<api, pag>>

RepoSavePrsBatch ==
  /\ nops < MaxRepoOps
  /\ \E repo \in RepoIds, prs \in SeqsUpTo(SearchItems, MaxBatch) :
       /\ disk' = save_prs_batch(disk, repo, prs, "number")
       /\ last' = [NoOp EXCEPT !.op = "save_prs_batch", !.repo = repo,
                     !.outcome = "ok", !.prs = prs]
  /\ nops' = nops + 1
  /\ UNCHANGED <<api, pag>>

RepoMarkTagRange ==
  /\ nops < MaxRepoOps
  /\ \E repo \in RepoIds, pair \in TagPairs,
        pr_numbers \in SeqsUpTo(Numbers, MaxBatch) :
       /\ disk' = mark_tag_range_fetched(disk, repo, pair[1], pair[2],
                                         pr_numbers)
       /\ last' = [NoOp EXCEPT !.op = "mark_tag_range_fetched",
                     !.repo = repo, !.start = pair[1], !.end = pair[2],
                     !.outcome = "ok", !.pr_numbers = pr_numbers]
  /\ nops' = nops + 1
  /\ UNCHANGED <<api, pag>>

NextRepos ==
  \/ RepoSavePr
  \/ RepoSaveIndex
  \/ RepoSavePrsBatch
  \/ RepoMarkTagRange

SpecRepos == InitRepos /\ [][NextRepos]_vars

(***************************************************************************)
(* The tag ranges of one repository written for several tag names.  "a."   *)
(* and ".a" are strings the cache takes; they are not names git accepts    *)
(* for a tag.  While the ranges are written, last.calls lists the pairs    *)
(* mark_tag_range_fetched was called with.                                 *)
(***************************************************************************)
TagNames == {<<"a">>, <<"a", ".", "a">>, <<"a", ".">>, <<".", "a">>}

NamePairs == TagNames \X TagNames

RangeMark ==
  /\ nops < MaxRangeOps
  /\ \E repo \in Repos, pair \in NamePairs,
        pr_numbers \in SeqsUpTo(Numbers, MaxBatch) :
       /\ disk' = mark_tag_range_fetched(disk, repo, pair[1], pair[2],
                                         pr_numbers)
       /\ last' = [NoOp EXCEPT !.op = "mark_tag_range_fetched",
                     !.repo = repo, !.start = pair[1], !.end = pair[2],
                     !.outcome = "ok", !.pr_numbers = pr_numbers,
                     !.calls = Append(last.calls, pair)]
  /\ nops' = nops + 1
  /\ UNCHANGED <<api, pag>>

RangeSavePrsBatch ==
  /\ nops < MaxRangeOps
  /\ \E repo \in Repos, prs \in SeqsUpTo(SearchItems, MaxBatch) :
       /\ disk' = save_prs_batch(disk, repo, prs, "number")
       /\ last' = [NoOp EXCEPT !.op = "save_prs_batch", !.repo = repo,
                     !.outcome = "ok", !.prs = prs, !.calls = last.calls]
  /\ nops' = nops + 1
  /\ UNCHANGED <<api, pag>>

NextRanges == RangeMark \/ RangeSavePrsBatch

SpecRanges == Init /\ [][NextRanges]_vars

(***************************************************************************)
(* Claims about fetch_prs_between_tags, checked under Spec.                *)
(***************************************************************************)
\* A step that is a fetch_prs_between_tags call with the given arguments.
FetchStep == nops' = nops + 1 /\ last'.op = "fetch"

SameRange(a, b) == a.repo = b.repo /\ a.start = b.start /\ a.end = b.end

\* C1: a second fetch_prs_between_tags call with the same repo and tags and
\* no force_refresh, right after a first one that returned, makes no network
\* call and returns the list the first call returned.
C1_Idempotent ==
  [][(/\ FetchStep
      /\ last.op = "fetch" /\ last.outcome = "ok" /\ ~last.force
      /\ ~last'.force /\ SameRange(last, last'))
     => (last'.netCalls = 0 /\ last'.outcome = "ok" /\ last'.prs = last.prs)]_vars

\* C2: every PR number listed under a tag-range key of the index has a
\* record that get_pr returns.
C2_ListedHaveRecords ==
  \A repo \in Repos :
    LET ranges == get_index(disk, repo).tag_ranges
    IN  \A k \in DOMAIN ranges : \A i \in 1..Len(ranges[k]) :
          get_pr(disk, repo, ranges[k][i]) # None

\* C3: after a fetch from the network, the list stored under the tag-range
\* key holds the number of every PR the search matches.
C3_RangeComplete ==
  (last.op = "fetch" /\ last.path = "miss" /\ last.outcome = "ok")
  => LET stored == get_tag_range(disk, last.repo, last.start, last.end)
     IN  /\ stored # None
         /\ \A i \in 1..Len(last.matches) :
              "number" \in DOMAIN last.matches[i]
              => \E j \in 1..Len(stored[1]) :
                   stored[1][j] = last.matches[i]["number"]

\* The records of the listed numbers that get_pr returns, in list order.
Retrievable(d, repo, numbers) ==
  LET present == SelectSeq(numbers, LAMBDA n : get_pr(d, repo, n) # None)
  IN  [i \in 1..Len(present) |-> get_pr(d, repo, present[i])[1]]

\* C4: a fetch without force_refresh of a range whose key is in the index
\* makes no network call, raises nothing, leaves the cache as it is and
\* returns the retrievable records of the listed numbers in list order.
C4_CacheHit ==
  [][(/\ FetchStep
      /\ ~last'.force
      /\ get_tag_range(disk, last'.repo, last'.start, last'.end) # None)
     => (/\ last'.path = "hit" /\ last'.outcome = "ok" /\ last'.netCalls = 0
         /\ disk' = disk
         /\ last'.prs =
              Retrievable(disk, last'.repo,
                get_tag_range(disk, last'.repo, last'.start, last'.end)[1]))]_vars

\* C4 witness: a cache hit that dropped a listed number without a record
\* and returned the record of another listed number.
C4_Witness ==
  /\ last.op = "fetch" /\ last.path = "hit" /\ last.outcome = "ok"
  /\ last.prs # <<>>
  /\ Len(last.prs) <
       Len(get_tag_range(disk, last.repo, last.start, last.end)[1])

(***************************************************************************)
(* Claims about api_get, checked under SpecApi.                            *)
(***************************************************************************)
\* The X-RateLimit-Reset header of request i's response as an int (0 when
\* the header is absent), and the wait computed when it arrived.
ResetOf(i) ==
  IF api.requests[i].resp.reset = None THEN 0 ELSE api.requests[i].resp.reset[1]

WaitOf(i) ==
  (IF ResetOf(i) > api.requests[i].recv
   THEN ResetOf(i) - api.requests[i].recv ELSE 0) + 1

Limited(i) ==
  /\ api.requests[i].resp.status = 403
  /\ api.requests[i].resp.remaining = <<"0">>

NRequests == Len(api.requests)

\* C5: a rate-limited response to attempt i-1 with wait < 60 and an attempt
\* left is followed by a sleep of min(wait, 2^i) and another request; any
\* other rate-limited response ends the call with a RateLimitError that
\* carries the reset time of that response.
C5_RateLimitBackoff ==
  \A i \in 1..NRequests :
    Limited(i) =>
      IF WaitOf(i) < 60 /\ i - 1 < api.max_retries - 1
      THEN /\ Len(api.sleeps) >= i
           /\ api.sleeps[i] = (IF WaitOf(i) < 2^i THEN WaitOf(i) ELSE 2^i)
           /\ IF NRequests > i
              THEN api.requests[i + 1].sent = api.requests[i].recv + api.sleeps[i]
              ELSE /\ api.phase = "running" /\ api.attempt = i
                   /\ api.attempt < api.max_retries
                   /\ api.now = api.requests[i].recv + api.sleeps[i]
      ELSE /\ i = NRequests /\ Len(api.sleeps) = i - 1
           /\ api.phase = "done" /\ api.outcome = "RateLimitError"
           /\ api.err.reset_time = <<ResetOf(i)>>

\* C5 witness: a call that slept after a rate-limited response and then
\* failed, with attempts left, on a rate-limited response with a long wait.
C5_Witness ==
  /\ api.outcome = "RateLimitError"
  /\ Len(api.sleeps) >= 1
  /\ api.attempt < api.max_retries - 1
  /\ WaitOf(NRequests) >= 60

\* Every one of the max_retries >= 1 attempts was answered by a
\* rate-limited 403 with a short wait, and the call is over.
AllAttemptsLimited ==
  /\ api.phase = "done"
  /\ api.max_retries >= 1
  /\ NRequests = api.max_retries
  /\ \A i \in 1..NRequests : Limited(i) /\ WaitOf(i) < 60

\* C6 as claimed: such a call fails with the generic "Max retries exceeded"
\* error.
C6_MaxRetriesExceeded ==
  AllAttemptsLimited
  => (api.outcome = "GitHubAPIError" /\ api.err.message = "Max retries exceeded")

\* C6 as amended: such a call fails with a RateLimitError carrying the reset
\* time of the last response; "Max retries exceeded" is raised exactly by
\* the calls with max_retries = 0, which send no request.
C6_RateLimitErrorAtCeiling ==
  /\ AllAttemptsLimited
       => (/\ api.outcome = "RateLimitError"
           /\ api.err.reset_time = <<ResetOf(NRequests)>>
           /\ Len(api.sleeps) = api.max_retries - 1)
  /\ api.phase = "done"
       => (api.err.message = "Max retries exceeded"
             <=> (api.max_retries = 0 /\ NRequests = 0))

\* C6 witness: three attempts, all rate limited with a short wait.
C6_Witness == AllAttemptsLimited /\ api.max_retries = 3

\* The scenario of C7: max_retries is 3, the first response is rate limited
\* with a reset 5 seconds after it arrived, and the server answers 200 to a
\* request sent at or after the reset and rate-limits one sent before it.
Scenario5s ==
  /\ api.phase = "done"
  /\ api.max_retries = 3
  /\ NRequests >= 1
  /\ Limited(1)
  /\ api.requests[1].resp.reset = <<api.requests[1].recv + 5>>
  /\ \A i \in 1..NRequests :
       api.requests[i].resp =
         IF api.requests[i].sent >= api.requests[1].recv + 5
         THEN [status |-> 200, remaining |-> <<>>, reset |-> <<>>,
               body |-> "json"]
         ELSE api.requests[1].resp

\* C7 as claimed: the call sleeps once, for about 5 seconds, and returns.
C7_SleepsOnce ==
  Scenario5s
  => (/\ api.outcome = "return"
      /\ Len(api.sleeps) = 1
      /\ api.sleeps[1] \in 4..6)

\* C7 as amended: the call sleeps twice, 2 seconds after the first response
\* and at most 4 seconds after the second, 6 seconds or less in all, and
\* returns the response to its third request.
C7_SleepsTwice ==
  Scenario5s
  => (/\ api.outcome = "return"
      /\ NRequests = 3
      /\ Len(api.sleeps) = 2
      /\ api.sleeps[1] = 2
      /\ api.sleeps[2] <= 4
      /\ api.sleeps[1] + api.sleeps[2] <= 6
      /\ api.requests[3].sent >= api.requests[1].recv + 5)

\* C7 witness: the scenario ran to its end.
C7_Witness == Scenario5s /\ api.outcome = "return"

\* A response that is neither a 200 nor a rate-limited 403.
OtherFailure(i) == api.requests[i].resp.status # 200 /\ ~Limited(i)

\* C8: such a response ends the call at once with a GitHubAPIError carrying
\* its status code and body: it is the last request, and no sleep follows.
C8_FailsAtOnce ==
  \A i \in 1..NRequests :
    OtherFailure(i) =>
      /\ i = NRequests
      /\ Len(api.sleeps) = i - 1
      /\ api.phase = "done" /\ api.outcome = "GitHubAPIError"
      /\ api.err.status_code = api.requests[i].resp.status
      /\ api.err.response_body = api.requests[i].resp.body
      /\ api.err.reset_time = <<>>

\* C8 witness: the first response is a 403 with quota remaining, and the
\* call with three attempts allowed is over after it.
C8_Witness ==
  /\ api.max_retries = 3
  /\ NRequests = 1
  /\ api.requests[1].resp.status = 403
  /\ api.requests[1].resp.remaining = <<"5">>
  /\ api.phase = "done"

(***************************************************************************)
(* Claims about api_get_paginated, checked under SpecPag.                  *)
(***************************************************************************)
\* The number of items of page p on the server.
SizeOfPage(p) == IF p <= Len(pag.sizes) THEN pag.sizes[p] ELSE pag.rest

RECURSIVE ItemsUpTo(_)
ItemsUpTo(p) == IF p = 0 THEN 0 ELSE SizeOfPage(p) + ItemsUpTo(p - 1)

\* C9: api_get_paginated requests the pages 1, 2, ... in order, stops after
\* the first page with fewer than per_page items or after max_pages pages,
\* and returns the items of the requested pages in page order; pages of
\* 100, 100 and 37 items give 3 calls and 237 items, and full pages without
\* end give max_pages calls.
C9_Pagination ==
  (pag.phase = "done" /\ pag.outcome = "return") =>
    LET n == Len(pag.calls)
    IN  /\ \A k \in 1..n : pag.calls[k] = k
        /\ n <= pag.max_pages
        /\ \A k \in 1..(n - 1) : SizeOfPage(k) >= pag.per_page
        /\ n = pag.max_pages \/ SizeOfPage(n) < pag.per_page
        /\ Len(pag.results) = ItemsUpTo(n)
        /\ \A j \in 1..Len(pag.results) :
             /\ pag.results[j][1] \in 1..n
             /\ pag.results[j][2] \in 1..SizeOfPage(pag.results[j][1])
        /\ \A j \in 1..(Len(pag.results) - 1) :
             \/ pag.results[j][1] < pag.results[j + 1][1]
             \/ /\ pag.results[j][1] = pag.results[j + 1][1]
                /\ pag.results[j][2] < pag.results[j + 1][2]
        /\ (pag.sizes = <<100, 100, 37>> /\ pag.per_page = 100
              /\ pag.max_pages >= 3)
             => (n = 3 /\ Len(pag.results) = 237)
        /\ (\A k \in 1..pag.max_pages : SizeOfPage(k) = pag.per_page)
             => n = pag.max_pages

\* C9 witness: pages of 100, 100 and 37 items with the default arguments.
C9_Witness ==
  /\ pag.phase = "done" /\ pag.outcome = "return"
  /\ pag.sizes = <<100, 100, 37>> /\ pag.per_page = 100 /\ pag.max_pages = 10
  /\ pag.calls = <<1, 2, 3>> /\ Len(pag.results) = 237

(***************************************************************************)
(* Claims about the cache operations, checked under SpecCache.             *)
(***************************************************************************)
DigitValue(c) == CHOOSE v \in 0..9 : DigitChars[v + 1] = c

\* String order of two strings of digits: at the first position where they
\* differ the smaller digit decides, and a proper prefix comes first.
LexLess(a, b) ==
  \E k \in 1..Len(b) :
    /\ k <= Len(a) + 1
    /\ \A j \in 1..(k - 1) : a[j] = b[j]
    /\ k = Len(a) + 1 \/ DigitValue(a[k]) < DigitValue(b[k])

ProbeTimes == Timestamps \cup {<<>>, <<"1">>, <<"9", "0">>}

\* C10 as claimed: is_pr_stale is true when get_pr gives nothing or the
\* index has no summary of the PR, and when the index has one, it is true
\* iff the summary's updated_at is before t in string order.
C10_StaleWhenNoRecord ==
  \A repo \in Repos, n \in Numbers, t \in ProbeTimes :
    LET prs == get_index(disk, repo).prs
    IN  /\ get_pr(disk, repo, n) = None => is_pr_stale(disk, repo, n, t)
        /\ Str(n) \notin DOMAIN prs => is_pr_stale(disk, repo, n, t)
        /\ Str(n) \in DOMAIN prs =>
             (is_pr_stale(disk, repo, n, t)
                <=> LexLess(prs[Str(n)].updated_at, t))

\* C10 as amended: is_pr_stale is decided by the index alone, whether or
\* not get_pr gives a record: true when the index has no summary of the PR,
\* and else true iff the summary's updated_at is before t in string order.
C10_StaleByIndex ==
  \A repo \in Repos, n \in Numbers, t \in ProbeTimes :
    LET prs == get_index(disk, repo).prs
    IN  is_pr_stale(disk, repo, n, t)
          <=> (Str(n) \notin DOMAIN prs \/ LexLess(prs[Str(n)].updated_at, t))

\* C10 witness: one PR has a record and no summary and is stale for every
\* t, another has a summary of "9" and is stale for "90", not for "10".
C10_Witness ==
  \E repo \in Repos, n \in Numbers, m \in Numbers :
    /\ get_pr(disk, repo, n) # None
    /\ Str(n) \notin DOMAIN get_index(disk, repo).prs
    /\ is_pr_stale(disk, repo, n, <<>>)
    /\ Str(m) \in DOMAIN get_index(disk, repo).prs
    /\ get_index(disk, repo).prs[Str(m)].updated_at = <<"9">>
    /\ is_pr_stale(disk, repo, m, <<"9", "0">>)
    /\ ~is_pr_stale(disk, repo, m, <<"1", "0">>)

(***************************************************************************)
(* Claims about filter_compiler_prs, checked under SpecFilter.             *)
(***************************************************************************)
FilterStep == nops' = nops + 1 /\ last'.op = "filter"

\* s is a literal prefix of p.
IsPrefix(s, p) == Len(s) <= Len(p) /\ SubSeq(p, 1, Len(s)) = s

HasCompilerPrefix(p) ==
  \E i \in 1..Len(COMPILER_PATHS) : IsPrefix(COMPILER_PATHS[i], p)

\* The paths of a file list that start with a compiler prefix, in order.
MatchingPaths(files) ==
  LET named == SelectSeq(files, LAMBDA f : "filename" \in DOMAIN f
                                            /\ HasCompilerPrefix(f["filename"]))
  IN  [i \in 1..Len(named) |-> named[i]["filename"]]

\* The matching paths of the file list cached for n in cache d: none when
\* no record or no file list is cached.
CachedMatches(d, repo, n) ==
  LET rec == get_pr(d, repo, n)
  IN  IF rec # None /\ "files" \in DOMAIN rec[1]
      THEN MatchingPaths(rec[1]["files"]) ELSE <<>>

\* C11: filter_compiler_prs with fetch_missing false makes no network call
\* and no cache write, returns the numbers of the input, in input order,
\* whose cached file list has a path with a compiler prefix, and maps
\* exactly those numbers to their matching paths.
C11_FilterCachedOnly ==
  [][(FilterStep /\ ~last'.fetch_missing)
     => (/\ last'.netCalls = 0 /\ last'.outcome = "ok"
         /\ disk' = disk
         /\ last'.compiler_prs =
              SelectSeq(last'.pr_numbers,
                        LAMBDA n : CachedMatches(disk, last'.repo, n) # <<>>)
         /\ DOMAIN last'.pr_files_map = NumbersIn(last'.compiler_prs)
         /\ \A n \in DOMAIN last'.pr_files_map :
              last'.pr_files_map[n] = CachedMatches(disk, last'.repo, n))]_vars

\* C11 witness: three numbers of which only the middle one has a cached
\* file list, with a compiler path.
C11_Witness ==
  /\ last.op = "filter" /\ ~last.fetch_missing
  /\ last.pr_numbers = <<0, 1, 2>>
  /\ get_pr(disk, last.repo, 0) = None
  /\ get_pr(disk, last.repo, 2) = Some(PR(2, <<"9">>))
  /\ last.compiler_prs = <<1>>
  /\ last.pr_files_map = Put(EmptyDict, 1, <<<<"C", "o", "m", "p", "i", "l", "e", "r", "/", "a">>>>)

\* The numbers whose file fetch failed in the step.
FailedNumbers == {n \in DOMAIN last'.srv : ~last'.srv[n].ok}

\* The matching paths the call works with for n: of the cached file list,
\* else of the fetched one, none when the fetch failed.
ExpectedMatches(n) ==
  IF HasFiles(disk, last'.repo, n) THEN CachedMatches(disk, last'.repo, n)
  ELSE IF last'.srv[n].ok THEN MatchingPaths(last'.srv[n].files)
  ELSE <<>>

\* C12: with fetch_missing true a failed file fetch leaves its number out
\* of both results, the numbers after it are still handled, and the call
\* returns what it returns for the input without the failed numbers.
C12_FailureSkipsOne ==
  [][(FilterStep /\ last'.fetch_missing)
     => LET kept == SelectSeq(last'.pr_numbers,
                              LAMBDA n : n \notin FailedNumbers)
            r == filter_compiler_prs(disk, kept, last'.repo, TRUE, last'.srv)
        IN  /\ last'.outcome = "ok"
            /\ \A n \in FailedNumbers :
                 /\ n \notin NumbersIn(last'.compiler_prs)
                 /\ n \notin DOMAIN last'.pr_files_map
            /\ last'.compiler_prs =
                 SelectSeq(last'.pr_numbers,
                           LAMBDA n : ExpectedMatches(n) # <<>>)
            /\ \A n \in DOMAIN last'.pr_files_map :
                 last'.pr_files_map[n] = ExpectedMatches(n)
            /\ last'.compiler_prs = r.compiler_prs
            /\ last'.pr_files_map = r.pr_files_map
            /\ disk' = r.disk]_vars

\* C12 witness: the fetch failed for the first number and the second,
\* fetched after it, is in the result.
C12_Witness ==
  /\ last.op = "filter" /\ last.fetch_missing
  /\ Len(last.pr_numbers) = 2
  /\ last.pr_numbers[1] \in DOMAIN last.srv
  /\ ~last.srv[last.pr_numbers[1]].ok
  /\ last.pr_numbers[2] \in DOMAIN last.srv
  /\ last.compiler_prs = <<last.pr_numbers[2]>>

\* The number of times n occurs in numbers.
Occurrences(numbers, n) == Cardinality({i \in 1..Len(numbers) : numbers[i] = n})

\* The file fetches the step makes for n: none when a file list is cached,
\* one when the fetched list is written back, else one per occurrence.
FetchesFor(n) ==
  IF ~last'.fetch_missing \/ HasFiles(disk, last'.repo, n) THEN 0
  ELSE IF last'.srv[n].ok /\ TruthyDict(get_pr(disk, last'.repo, n)) THEN 1
  ELSE Occurrences(last'.pr_numbers, n)

\* The file fetches the step makes for the numbers of S.
RECURSIVE FetchesForAll(_)
FetchesForAll(S) ==
  IF S = {} THEN 0
  ELSE LET x == CHOOSE y \in S : TRUE
       IN  FetchesFor(x) + FetchesForAll(S \ {x})

\* C13 as claimed: every file list fetched with success is written back:
\* afterwards get_pr gives a record whose files are the fetched list.
C13_FetchedIsWrittenBack ==
  [][(FilterStep /\ last'.fetch_missing)
     => \A n \in DOMAIN last'.srv :
          last'.srv[n].ok
          => /\ get_pr(disk', last'.repo, n) # None
             /\ "files" \in DOMAIN get_pr(disk', last'.repo, n)[1]
             /\ get_pr(disk', last'.repo, n)[1]["files"] = last'.srv[n].files]_vars

\* C13 as amended: a file list fetched with success is written back when a
\* non-empty record of the number is cached, and then the record is that
\* record with files set to the fetched list; when no record or an empty
\* one is cached nothing is written for the number.  A number with a cached
\* file list is never fetched, one whose list was written back is fetched
\* once, any other number is fetched at each of its occurrences.
C13_WrittenBackIfRecord ==
  [][FilterStep
     => /\ \A n \in NumbersIn(last'.pr_numbers) :
             LET rec == get_pr(disk, last'.repo, n)
             IN  IF /\ last'.fetch_missing /\ ~HasFiles(disk, last'.repo, n)
                    /\ TruthyDict(rec) /\ last'.srv[n].ok
                 THEN get_pr(disk', last'.repo, n)
                        = Some(Put(rec[1], "files", last'.srv[n].files))
                 ELSE get_pr(disk', last'.repo, n) = rec
        /\ last'.netCalls = FetchesForAll(NumbersIn(last'.pr_numbers))]_vars

\* C13 witness: one call fetched the list of a number with a record, wrote
\* it back, and fetched the list of a number without a record twice.
C13_Witness ==
  /\ last.op = "filter" /\ last.fetch_missing
  /\ last.netCalls = 3
  /\ \E n \in DOMAIN last.srv, m \in DOMAIN last.srv :
       /\ last.srv[n].ok /\ last.srv[m].ok
       /\ HasFiles(disk, last.repo, n)
       /\ get_pr(disk, last.repo, n)[1]["files"] = last.srv[n].files
       /\ get_pr(disk, last.repo, m) = None
       /\ Occurrences(last.pr_numbers, m) = 2

(***************************************************************************)
(* Claims about save_prs_batch, checked under SpecBatch.                   *)
(***************************************************************************)
BatchStep == nops' = nops + 1 /\ last'.op = "save_prs_batch"

\* Record i of the batch has the key with a number other than 0.
Keyed(i) == last'.key \in DOMAIN last'.prs[i] /\ last'.prs[i][last'.key] # 0

KeyedNumbers == {last'.prs[i][last'.key] : i \in {j \in 1..Len(last'.prs) : Keyed(j)}}

\* The last record of the batch whose key is n.
LastWith(n) ==
  last'.prs[CHOOSE i \in 1..Len(last'.prs) :
              /\ Keyed(i) /\ last'.prs[i][last'.key] = n
              /\ \A j \in (i + 1)..Len(last'.prs) :
                   ~(Keyed(j) /\ last'.prs[j][last'.key] = n)]

\* The index summary of a record with a title and an updated_at and no
\* merged_at.
SummaryOf(pr) ==
  [title |-> pr.title, merged_at |-> <<>>, updated_at |-> pr.updated_at]

\* C14 as claimed: after save_prs_batch every record with the key is what
\* get_pr returns for its number and the index holds its summary; records
\* without the key, or with the key 0, write nothing; other index entries
\* and the tag ranges stay; the index is written once, after the records.
C14_EveryKeyedRecordStored ==
  [][BatchStep
     => /\ \A i \in 1..Len(last'.prs) :
             Keyed(i)
             => /\ get_pr(disk', last'.repo, last'.prs[i][last'.key])
                     = Some(last'.prs[i])
                /\ get_index(disk', last'.repo).prs[Str(last'.prs[i][last'.key])]
                     = SummaryOf(last'.prs[i])
        /\ \A n \in Numbers \ KeyedNumbers :
             get_pr(disk', last'.repo, n) = get_pr(disk, last'.repo, n)
        /\ last'.writes[Len(last'.writes)] = IndexFile]_vars

\* C14 as amended: for every number that is the key of a record of the
\* batch, get_pr returns the last such record and the index holds that
\* record's summary; records without the key, or with the key 0, write
\* nothing and raise nothing; the records and index entries of other
\* numbers and all tag ranges stay; the files written are the records with
\* the key, in batch order, and then the index, once.
C14_LastKeyedRecordStored ==
  [][BatchStep
     => LET old == get_index(disk, last'.repo)
            new == get_index(disk', last'.repo)
        IN  /\ last'.outcome = "ok"
            /\ \A n \in KeyedNumbers :
                 /\ get_pr(disk', last'.repo, n) = Some(LastWith(n))
                 /\ Str(n) \in DOMAIN new.prs
                 /\ new.prs[Str(n)] = SummaryOf(LastWith(n))
            /\ \A n \in Numbers \ KeyedNumbers :
                 /\ get_pr(disk', last'.repo, n) = get_pr(disk, last'.repo, n)
                 /\ Get(new.prs, Str(n)) = Get(old.prs, Str(n))
            /\ DOMAIN new.prs = DOMAIN old.prs \cup {Str(n) : n \in KeyedNumbers}
            /\ new.tag_ranges = old.tag_ranges
            /\ disk'[get_repo_dir(last'.repo)].index # None
            /\ last'.writes =
                 [k \in 1..Cardinality({j \in 1..Len(last'.prs) : Keyed(j)}) |->
                    pr_file(SelectSeq(last'.prs,
                              LAMBDA pr : last'.key \in DOMAIN pr
                                          /\ pr[last'.key] # 0)[k][last'.key])]
                   \o <<IndexFile>>]_vars

\* C14 witness: a batch of a record with the number 0 and a record with
\* another number, saved into a cache that had a summary and a tag range.
C14_Witness ==
  /\ last.op = "save_prs_batch" /\ last.key = "number"
  /\ Len(last.prs) = 2
  /\ last.prs[1] = PR(0, <<"9">>)
  /\ last.prs[2] = PR(2, <<"9">>)
  /\ get_pr(disk, last.repo, 0) = None
  /\ get_pr(disk, last.repo, 2) = Some(last.prs[2])
  /\ DOMAIN get_index(disk, last.repo).prs = {Str(1), Str(2)}
  /\ DOMAIN get_index(disk, last.repo).tag_ranges # {}
  /\ last.writes = <<pr_file(2), IndexFile>>

(***************************************************************************)
(* Claims about the index summaries over fetches, checked under Spec.      *)
(***************************************************************************)
\* The index summary of PR n of a repo in cache d, if any.
SummaryIn(d, repo, n) == Get(get_index(d, repo).prs, Str(n))

\* C15 as claimed: the updated_at the index holds for a PR never becomes
\* smaller in string order than it was, and a record stored under n has
\* the number n.
C15_UpdatedAtNeverDecreases ==
  [][\A repo \in Repos, n \in Numbers :
       /\ SummaryIn(disk, repo, n) # None
            => /\ SummaryIn(disk', repo, n) # None
               /\ ~LexLess(SummaryIn(disk', repo, n)[1].updated_at,
                           SummaryIn(disk, repo, n)[1].updated_at)
       /\ get_pr(disk', repo, n) # None
            => get_pr(disk', repo, n)[1].number = n]_vars

\* The last record with the number n in a list of records.
LastNumbered(prs, n) ==
  prs[CHOOSE i \in 1..Len(prs) :
        /\ Get(prs[i], "number") = Some(n)
        /\ \A j \in (i + 1)..Len(prs) : Get(prs[j], "number") # Some(n)]

\* C15 as amended: the index holds for a PR the updated_at of the last
\* record with its number in the list of the most recent fetch from the
\* network that had one, whether it is larger or smaller than the value
\* held before; no other step changes or removes a summary; and a record
\* stored under n has the number n.
C15_LastFetchWins ==
  [][\A repo \in Repos, n \in Numbers :
       /\ IF /\ FetchStep /\ last'.path = "miss" /\ last'.outcome = "ok"
             /\ last'.repo = repo /\ n # 0
             /\ \E i \in 1..Len(last'.prs) : last'.prs[i].number = n
          THEN /\ SummaryIn(disk', repo, n) # None
               /\ SummaryIn(disk', repo, n)[1].updated_at
                    = LastNumbered(last'.prs, n).updated_at
          ELSE IF /\ FetchStep /\ last'.outcome = "KeyError"
                  /\ \E i \in 1..Len(last'.matches) :
                       Get(last'.matches[i], "number") = Some(n)
          THEN \/ SummaryIn(disk', repo, n) = SummaryIn(disk, repo, n)
               \/ /\ SummaryIn(disk', repo, n) # None
                  /\ \E i \in 1..Len(last'.matches) :
                       /\ Get(last'.matches[i], "number") = Some(n)
                       /\ SummaryIn(disk', repo, n)[1].updated_at
                            = last'.matches[i].updated_at
          ELSE SummaryIn(disk', repo, n) = SummaryIn(disk, repo, n)
       /\ get_pr(disk', repo, n) # None
            => get_pr(disk', repo, n)[1].number = n]_vars

\* C15 witness: two fetches from the network stored the same PR, and the
\* index holds the updated_at of the second.
C15_Witness ==
  /\ nops = 2
  /\ last.op = "fetch" /\ last.path = "miss" /\ last.outcome = "ok"
  /\ last.prs = <<PR(1, <<"1", "0">>)>>
  /\ \A pair \in TagPairs :
       get_tag_range(disk, last.repo, pair[1], pair[2]) = Some(<<1>>)
  /\ SummaryIn(disk, last.repo, 1)[1].updated_at = <<"1", "0">>

(***************************************************************************)
(* Claims about search_prs, checked under SpecSearch.                      *)
(***************************************************************************)
\* The number of items of page p of the search, and of the pages 1..p.
SearchPageSize(p) ==
  LET left == Len(last.matches) - 100 * (p - 1)
  IN  IF left >= 100 THEN 100 ELSE IF left > 0 THEN left ELSE 0

Collected(p) ==
  IF 100 * p <= Len(last.matches) THEN 100 * p ELSE Len(last.matches)

\* C16: search_prs requests the pages of 100 in order, at most
\* ceil(limit / 100) of them, none after a page of fewer than 100 items or
\* once limit items are collected, and returns the first min(limit,
\* collected) items; for limit <= 0 it requests nothing and returns [].
C16_SearchPages ==
  last.op = "search" =>
    LET c == last.netCalls
        kept == IF last.limit < Collected(c) THEN last.limit ELSE Collected(c)
    IN  /\ c >= 0
        /\ last.limit <= 0 => (c = 0 /\ last.prs = <<>>)
        /\ last.limit > 0 => (c >= 1 /\ 100 * (c - 1) < last.limit)
        /\ \A p \in 1..(c - 1) :
             SearchPageSize(p) = 100 /\ Collected(p) < last.limit
        /\ last.limit > 0 =>
             \/ 100 * c >= last.limit
             \/ SearchPageSize(c) < 100
        /\ last.limit > 0 =>
             /\ Len(last.prs) = kept
             /\ \A i \in 1..kept : last.prs[i] = last.matches[i]
        /\ Len(last.prs) <= (IF last.limit > 0 THEN last.limit ELSE 0)

\* C16 witness: 250 matches and a limit of 150: two requests, 150 items.
C16_Witness ==
  /\ last.op = "search"
  /\ Len(last.matches) = 250 /\ last.limit = 150
  /\ last.netCalls = 2 /\ Len(last.prs) = 150

(***************************************************************************)
(* Claims about get_tag_date, checked under SpecTagDate.                   *)
(***************************************************************************)
\* The lookups of a run in which none fails.
LookupsOf(srv, tag) ==
  IF srv.type = "tag"
  THEN <<[kind |-> "ref", of |-> tag], [kind |-> "tag", of |-> srv.ref_sha],
         [kind |-> "commit", of |-> srv.tag_target]>>
  ELSE <<[kind |-> "ref", of |-> tag], [kind |-> "commit", of |-> srv.ref_sha]>>

\* C17: get_tag_date looks up the tag reference, then the annotated-tag
\* object only when the reference's object type is "tag", then the commit:
\* 3 requests for an annotated tag, 2 for a lightweight one, and it returns
\* the commit's committer date; a lookup that fails raises its error and
\* no later lookup is issued.
C17_TagLookups ==
  last.op = "get_tag_date" =>
    LET srv == last.arg.srv
        all == LookupsOf(srv, last.start)
    IN  IF last.arg.failAt = 0
        THEN /\ last.outcome = "return"
             /\ last.calls = all
             /\ Len(last.calls) = (IF srv.type = "tag" THEN 3 ELSE 2)
             /\ last.result =
                  Some(srv.commit_date[IF srv.type = "tag" THEN srv.tag_target
                                       ELSE srv.ref_sha])
        ELSE /\ last.outcome = "GitHubAPIError"
             /\ last.arg.status \in FailStatuses
             /\ last.result = None
             /\ last.calls = SubSeq(all, 1, last.arg.failAt)

\* C17 witness: the lookup of the annotated-tag object failed, and no
\* commit was looked up.
C17_Witness ==
  /\ last.op = "get_tag_date"
  /\ last.arg.srv.type = "tag" /\ last.arg.failAt = 2
  /\ last.outcome = "GitHubAPIError"
  /\ Len(last.calls) = 2 /\ last.calls[2].kind = "tag"

(***************************************************************************)
(* Claims about the cache reads and writes, checked under SpecCache.       *)
(***************************************************************************)
ReadOps == {"get_pr", "get_index", "get_tag_range", "get_cached_updated_at"}

ReadStep == nops' = nops + 1 /\ last'.op \in ReadOps

\* The files of a repo's directory as they are on disk.
PrFilesOf(repo) == DOMAIN disk[get_repo_dir(repo)].prs

IndexDocOf(repo) == disk[get_repo_dir(repo)].index

\* C18: a read of something that was never persisted returns the absence
\* value (the empty default for get_index), raises nothing, and leaves the
\* cache as it is, so that no later read is changed by it.
C18_ReadsOfAbsent ==
  [][ReadStep
     => /\ last'.outcome = "ok"
        /\ disk' = disk
        /\ (last'.op = "get_pr"
              /\ pr_file(last'.pr_numbers[1]) \notin PrFilesOf(last'.repo))
             => last'.result = <<>>
        /\ (last'.op = "get_index" /\ IndexDocOf(last'.repo) = <<>>)
             => last'.result = <<[prs |-> <<>>, tag_ranges |-> <<>>]>>
        /\ (last'.op = "get_tag_range"
              /\ \/ IndexDocOf(last'.repo) = <<>>
                 \/ range_key(last'.start, last'.end)
                      \notin DOMAIN IndexDocOf(last'.repo)[1].tag_ranges)
             => last'.result = <<>>
        /\ (last'.op = "get_cached_updated_at"
              /\ \/ IndexDocOf(last'.repo) = <<>>
                 \/ Str(last'.pr_numbers[1])
                      \notin DOMAIN IndexDocOf(last'.repo)[1].prs)
             => last'.result = <<>>]_vars

\* C18 witness: after a save_pr of PR 1 and a get_pr of PR 2, which found
\* nothing, get_cached_updated_at of PR 1 found nothing in the index.
C18_Witness ==
  /\ nops = 3
  /\ last.op = "get_cached_updated_at" /\ last.pr_numbers = <<1>>
  /\ last.result = <<>>
  /\ PrFilesOf(last.repo) = {pr_file(1)}
  /\ IndexDocOf(last.repo) = <<>>

\* C19: save_pr(repo, n, record) makes get_pr(repo, n) return a value equal
\* to record and changes get_pr of no other number; save_index and the
\* reads change get_pr of no number; a get_pr call returns what is stored.
\* So get_pr(repo, n) after save_pr(repo, n, record), with save_pr calls
\* for other numbers, save_index calls and reads in between, returns
\* record.
C19_RoundTrip ==
  [][/\ (nops' = nops + 1 /\ last'.op = "save_pr")
          => /\ get_pr(disk', last'.repo, last'.pr_numbers[1])
                  = Some(last'.prs[1])
             /\ \A n \in Numbers \ {last'.pr_numbers[1]} :
                  get_pr(disk', last'.repo, n) = get_pr(disk, last'.repo, n)
     /\ (nops' = nops + 1 /\ last'.op \in ReadOps \cup {"save_index"})
          => \A repo \in Repos, n \in Numbers :
               get_pr(disk', repo, n) = get_pr(disk, repo, n)
     /\ (nops' = nops + 1 /\ last'.op = "get_pr")
          => last'.result = get_pr(disk', last'.repo, last'.pr_numbers[1])]_vars

\* C19 witness: get_pr returned the second version of PR 1, saved under 1,
\* after a save_pr under another number came in between.
C19_Witness ==
  /\ nops = 3
  /\ last.op = "get_pr" /\ last.pr_numbers = <<1>>
  /\ last.result = Some(PR(1, <<"1", "0">>))
  /\ PrFilesOf(last.repo) = {pr_file(1), pr_file(2)}

(***************************************************************************)
(* Claims about the classifier functions, checked under SpecClassify.      *)
(***************************************************************************)
\* The four configured prefixes, spelled out.
ConfiguredPrefixes ==
  {<<"C", "o", "m", "p", "i", "l", "e", "r", "/">>,
   <<"J", "u", "l", "i", "a", "S", "y", "n", "t", "a", "x", "/">>,
   <<"J", "u", "l", "i", "a", "L", "o", "w", "e", "r", "i", "n", "g", "/">>,
   <<"s", "r", "c", "/", "i", "n", "t", "e", "r", "p", "r", "e", "t", "e", "r", ".", "c">>}

\* C20: is_compiler_file(p) is true iff a configured prefix is a literal
\* prefix of p; is_compiler_pr(entries) is true iff get_compiler_files(
\* entries) is not empty; get_compiler_files gives the matching paths in
\* order; an entry without a filename never matches.
C20_PrefixMatch ==
  last.op = "classify" =>
    LET files == last.arg
        Matches(f) == /\ "filename" \in DOMAIN f
                      /\ \E q \in ConfiguredPrefixes : IsPrefix(q, f["filename"])
        matching == SelectSeq(files, Matches)
    IN  /\ \A i \in 1..Len(files) :
             last.result.is_compiler_file[i] <=> Matches(files[i])
        /\ last.result.is_compiler_pr <=> last.result.get_compiler_files # <<>>
        /\ last.result.is_compiler_pr <=> \E i \in 1..Len(files) : Matches(files[i])
        /\ last.result.get_compiler_files
             = [i \in 1..Len(matching) |-> matching[i]["filename"]]
        /\ \A i \in 1..Len(files) :
             files[i] = NamelessFile => ~last.result.is_compiler_file[i]

\* C20 witness: a path with a compiler path inside it and a path that
\* goes on after "src/interpreter.c": only the second matches.
C20_Witness ==
  /\ last.op = "classify"
  /\ last.arg = <<File(<<"d", "o", "c", "/", "C", "o", "m", "p", "i", "l", "e", "r", "/", "a">>),
                  File(<<"s", "r", "c", "/", "i", "n", "t", "e", "r", "p", "r", "e", "t", "e", "r", ".", "c", "p", "p">>)>>
  /\ last.result.is_compiler_file = <<FALSE, TRUE>>
  /\ last.result.is_compiler_pr
  /\ Len(last.result.get_compiler_files) = 1

(***************************************************************************)
(* Claims about the network path of fetch_prs_between_tags, checked under  *)
(* Spec.                                                                   *)
(***************************************************************************)
\* The records, the stored range and the rest of the cache after a fetch
\* from the network that returned.
ReturnedPersisted ==
  \A i \in 1..Len(last'.prs) :
    get_pr(disk', last'.repo, last'.prs[i]["number"]) = Some(last'.prs[i])

RangeReplaced ==
  get_tag_range(disk', last'.repo, last'.start, last'.end)
    = Some(NumbersOf(last'.prs))

OthersUnchanged ==
  /\ \A pair \in TagPairs :
       pair # <<last'.start, last'.end>> =>
         get_tag_range(disk', last'.repo, pair[1], pair[2])
           = get_tag_range(disk, last'.repo, pair[1], pair[2])
  /\ \A n \in Numbers :
       (\A i \in 1..Len(last'.prs) : last'.prs[i]["number"] # n) =>
         get_pr(disk', last'.repo, n) = get_pr(disk, last'.repo, n)

\* C22: a fetch with force_refresh, or of a range whose key is not in the
\* index, goes to the network; when it returns, every returned record is
\* persisted, the range holds exactly the returned numbers in returned
\* order, and the other ranges and records are as before.
C22_NetworkFetchPersists ==
  [][(/\ FetchStep
      /\ last'.force
           \/ get_tag_range(disk, last'.repo, last'.start, last'.end) = None)
     => (/\ last'.path = "miss"
         /\ last'.outcome = "ok" =>
              /\ last'.netCalls >= Len(get_tag_date(last'.start))
                                     + Len(get_tag_date(last'.end))
              /\ ReturnedPersisted
              /\ RangeReplaced
              /\ OthersUnchanged)]_vars

(***************************************************************************)
(* Claims about the steps of fetch_prs_between_tags, checked under         *)
(* SpecMiss.                                                               *)
(***************************************************************************)
\* A miss that ended before its last write: stopped, or ended by an error.
Interrupted ==
  /\ last.op = "fetch" /\ last.path = "miss"
  /\ last.outcome \in {"stopped", "APIError", "KeyError"}

\* The writes of a whole miss: the records, the index, the index again.
MissWrites(prs) == BatchRecordWrites(prs, "number") \o <<IndexFile, IndexFile>>

\* The range key is in the index.
RangeStored == get_tag_range(disk, last.repo, last.start, last.end) # None

\* Every returned record is the record get_pr returns for its number.
AllPersisted ==
  \A i \in 1..Len(last.prs) :
    /\ "number" \in DOMAIN last.prs[i]
    /\ get_pr(disk, last.repo, last.prs[i]["number"]) = Some(last.prs[i])

\* The next call is for the range of the operation in last, not forced.
SameRangeAgain ==
  /\ last'.op = "fetch" /\ nops' = nops + 1
  /\ last'.repo = last.repo /\ last'.start = last.start /\ last'.end = last.end
  /\ ~last'.force

\* C21 as stated: in a miss that stopped before its end the range key is in
\* the index only if all returned records are persisted, and the next
\* non-forced call for the range goes to the network.
C21_StoppedMeansRefetch ==
  [][Interrupted =>
       /\ RangeStored => (last.key = "write" /\ AllPersisted)
       /\ SameRangeAgain => last'.path = "miss"]_vars

\* C21: the writes of a miss are the record writes, the index write of the
\* batch and the write that stores the range under its key, in this order;
\* until that last write the index holds for the range what it held when
\* the operation began.  After a miss that ended before its last write, a
\* non-forced call for the range goes to the network if the range was not
\* stored when the operation began, and is a cache hit otherwise.
C21_RangeWrittenLast ==
  [][/\ (last'.op = "fetch" /\ last'.path = "miss") =>
          LET stored == get_tag_range(disk', last'.repo, last'.start, last'.end)
              whole == MissWrites(last'.prs)
          IN  IF last'.outcome = "ok"
              THEN /\ last'.writes = whole
                   /\ stored = Some(NumbersOf(last'.prs))
              ELSE /\ stored = last'.result
                   /\ Len(last'.writes) < Len(whole)
                   /\ last'.writes = SubSeq(whole, 1, Len(last'.writes))
                   /\ last'.key = "net" => (last'.writes = <<>> /\ disk' = disk)
     /\ (Interrupted /\ SameRangeAgain) =>
          IF last.result = None
          THEN last'.path = "miss" /\ last'.outcome = "running"
          ELSE last'.path = "hit" /\ last'.netCalls = 0]_vars

\* C21 witness: a miss stopped after the record of PR 1 and the index of the
\* batch were written, the range not in the index.
C21_Witness ==
  /\ Interrupted /\ last.outcome = "stopped"
  /\ last.writes = <<pr_file(1), IndexFile>>
  /\ ~RangeStored
  /\ get_pr(disk, last.repo, 1) # None

\* The api_get calls of the operation in last', in order.
CallsOfNext ==
  list_prs_between_tags(last'.start, last'.end, last'.matches, last'.limit).calls

\* C23: a fetch that fails with an API error in a tag resolution or in the
\* search leaves every file of the cache as it was when the call began: no
\* record is written and the index, its ranges included, is as before.  A
\* later call for the same tags goes to the network again, or, when the
\* range was stored before and the later call is not forced, returns the
\* records of the stored range.
C23_FailureLeavesCache ==
  [][/\ (last'.op = "fetch" /\ last'.outcome = "APIError") =>
          /\ disk' = last'.srv
          /\ last'.writes = <<>>
          /\ last'.netCalls \in 1..Len(CallsOfNext)
          /\ get_index(disk', last'.repo) = get_index(last'.srv, last'.repo)
          /\ get_tag_range(disk', last'.repo, last'.start, last'.end)
               = last'.result
          /\ last'.result # None => last'.force
     /\ (/\ last.op = "fetch" /\ last.outcome = "APIError"
         /\ last'.op = "fetch" /\ nops' = nops + 1 /\ SameRange(last, last')) =>
          IF last'.force \/ last.result = None
          THEN last'.path = "miss" /\ last'.outcome = "running"
          ELSE /\ last'.path = "hit" /\ last'.netCalls = 0
               /\ last'.prs = Retrievable(disk, last.repo, last.result[1])]_vars

\* C23 witness: a forced fetch of a stored range failed in its search, the
\* sixth call, and the range and the record of PR 1 are still there.
C23_Witness ==
  /\ last.op = "fetch" /\ last.outcome = "APIError" /\ last.force
  /\ last.netCalls = 6
  /\ last.result = Some(<<1>>)
  /\ get_tag_range(disk, last.repo, last.start, last.end) = Some(<<1>>)
  /\ get_pr(disk, last.repo, 1) = Some(PR(1, <<"9">>))

(***************************************************************************)
(* Claims about the repositories of the cache, checked under SpecRepos.    *)
(***************************************************************************)
\* What the reads return for a repository.
ReadsOf(d, repo) ==
  [get_pr |-> [n \in Numbers |-> get_pr(d, repo, n)],
   get_index |-> get_index(d, repo),
   get_tag_range |->
     [pair \in TagPairs |-> get_tag_range(d, repo, pair[1], pair[2])]]

\* C24: a save_pr, save_index, save_prs_batch or mark_tag_range_fetched
\* call on one repository changes nothing of what get_pr, get_index and
\* get_tag_range return for a different repository.
C24_RepoScoped ==
  [][\A r2 \in RepoIds :
       r2 # last'.repo => ReadsOf(disk', r2) = ReadsOf(disk, r2)]_vars

(***************************************************************************)
(* Claims about the tag-range keys, checked under SpecRanges.              *)
(***************************************************************************)
TheRepo == CHOOSE r \in Repos : TRUE

RangeOf(d, pair) == get_tag_range(d, TheRepo, pair[1], pair[2])

MarkStep == nops' = nops + 1 /\ last'.op = "mark_tag_range_fetched"

Marked == {last.calls[i] : i \in 1..Len(last.calls)}

Joined(pair) == pair[1] \o <<".", ".">> \o pair[2]

\* A name git accepts for a tag has no dot at its start or end and no two
\* dots in a row.
ValidTag(t) ==
  /\ t # <<>> /\ t[1] # "." /\ t[Len(t)] # "."
  /\ \A i \in 1..(Len(t) - 1) : ~(t[i] = "." /\ t[i + 1] = ".")

====
